---- MODULE Spec2Model ----
(***************************************************************************)
(* Static code graph builder of shift: the Kuzu store (File, Function,     *)
(* HasFunction, Calls), the synchronizer parseAndUpdateKuzu, the symbol    *)
(* resolver, the bulk loader and the incremental updater.                  *)
(*                                                                         *)
(* A synchronization pass is a small-step machine: a list of pending work  *)
(* items of which the head issues at most one query.  The operations of    *)
(* Spec run a pass to completion (the extension awaits every query).       *)
(***************************************************************************)
EXTENDS Integers, Sequences, FiniteSets, Bags, TLC

VARIABLES disk, store, lastOp, log,
          conn, processorStarted, analysisQueue, currentJob,
          pass, text, literal,
          isAnalyzing, codebaseCache, hasSentInitialCodebase,
          previousCodebaseCache, analyses, retry

graphVars == <<disk, store, lastOp, log>>

extVars == <<conn, processorStarted, analysisQueue, currentJob>>

escVars == <<text, literal>>

saveVars == <<isAnalyzing, codebaseCache, hasSentInitialCodebase,
              previousCodebaseCache, analyses>>

llmVars == <<saveVars, retry>>

vars == <<graphVars, extVars, pass, escVars, llmVars>>

(***************************************************************************)
(* Paths are sequences of segments; an absolute path starts with "/".      *)
(***************************************************************************)
rootPath == <<"/", "ws">>

cwdPath == <<"/", "cwd">>

LibPath == <<"/", "tslib", "lib.d.ts">>

WsFiles == {"u.ts", "v.ts"}

fsPath(f) == rootPath \o <<f>>

IsAbsolute(p) == Len(p) > 0 /\ p[1] = "/"

\* path.relative(rootPath, filePath) for a file below rootPath
relative(root, p) == SubSeq(p, Len(root) + 1, Len(p))

DeclExt == {"lib.d.ts"}

isDeclarationFile(p) == p[Len(p)] \in DeclExt

(***************************************************************************)
(* Syntax trees.  pos is node.pos, loc stands for the start/end line and   *)
(* column of getLocation, module/prop are the module specifier and the     *)
(* propertyName of an import or export specifier.                          *)
(***************************************************************************)
N(kind, name, pos, loc, module, prop, children) ==
  [kind |-> kind, name |-> name, pos |-> pos, loc |-> loc,
   module |-> module, prop |-> prop, children |-> children]

Ident(name, pos) == N("Identifier", name, pos, 0, "", "", <<>>)

FnDecl(name, pos, loc, children) ==
  N("FunctionDeclaration", name, pos, loc, "", "", children)

\* f(...) ; the first child is node.expression
CallId(name, pos) ==
  N("CallExpression", "", pos, 0, "", "", <<Ident(name, pos)>>)

\* f(args) ; the arguments follow node.expression
CallArgs(name, pos, args) ==
  N("CallExpression", "", pos, 0, "", "", <<Ident(name, pos)>> \o args)

\* obj.prop(...) ; node.expression is a PropertyAccessExpression
CallProp(obj, prop, pos) ==
  N("CallExpression", "", pos, 0, "", "",
    <<N("PropertyAccessExpression", prop, pos, 0, "", "", <<Ident(obj, pos)>>)>>)

\* children of a variable declaration: its type (a TypeLiteral), then its
\* initializer, each optional
VarDecl(name, pos, children) ==
  N("VariableDeclaration", name, pos, 0, "", "", children)

ArrowFn(pos, loc, children) ==
  N("ArrowFunction", "", pos, loc, "", "", children)

ImportSpec(name, prop, module, pos) ==
  N("ImportSpecifier", name, pos, 0, module, prop, <<>>)

NsImport(name, module, pos) ==
  N("NamespaceImport", name, pos, 0, module, "", <<>>)

ExportSpec(name, prop, module, pos) ==
  N("ExportSpecifier", name, pos, 0, module, prop, <<>>)

SourceFileNode(children) == N("SourceFile", "", 0, 0, "", "", children)

NoNode == N("None", "", 0, 0, "", "", <<>>)

\* u.ts: export function f(){}
U1 == SourceFileNode(<<FnDecl("f", 0, 1, <<>>)>>)

\* u.ts: export function f(){}  export function log(){ f() }  export { f as h }
U2 == SourceFileNode(<<FnDecl("f", 0, 1, <<>>),
                       FnDecl("log", 21, 2, <<CallId("f", 45)>>),
                       ExportSpec("h", "f", "", 60)>>)

\* u.ts: export function f(){ function inner(){ f(); r() }
\*                            r() }       (f ends further down than in U1)
\*       export function r(){ r() }
\*       f(() => { r() })
U3 == SourceFileNode(<<FnDecl("f", 0, 3,
                              <<FnDecl("inner", 14, 1,
                                       <<CallId("f", 30), CallId("r", 35)>>),
                                CallId("r", 42)>>),
                       FnDecl("r", 50, 1, <<CallId("r", 64)>>),
                       CallArgs("f", 70,
                                <<ArrowFn(74, 1, <<CallId("r", 82)>>)>>)>>)

\* v.ts: import {f} from './u'  function g(){ f() }
V1 == SourceFileNode(<<ImportSpec("f", "f", "u.ts", 8),
                       FnDecl("g", 21, 2, <<CallId("f", 35)>>)>>)

\* v.ts: import {f} from './u'  const k = () => {}  const foo = k
\*       function g(){ foo(); foo(); console.log(); ext(); extv() }
V2 == SourceFileNode(<<ImportSpec("f", "f", "u.ts", 8),
                       VarDecl("k", 27, <<ArrowFn(31, 2, <<>>)>>),
                       VarDecl("foo", 46, <<Ident("k", 48)>>),
                       FnDecl("g", 50, 4,
                              <<CallId("foo", 64), CallId("foo", 71),
                                CallProp("console", "log", 78),
                                CallId("ext", 93), CallId("extv", 100)>>)>>)

\* v.ts: import {f} from './u'  import * as ns from './u'  const foo = f
\*       function g(){ foo(); ns.f(); ns.h() }
V3 == SourceFileNode(<<ImportSpec("f", "f", "u.ts", 8),
                       NsImport("ns", "u.ts", 29),
                       VarDecl("foo", 52, <<Ident("f", 58)>>),
                       FnDecl("g", 60, 4,
                              <<CallId("foo", 74), CallProp("ns", "f", 81),
                                CallProp("ns", "h", 89)>>)>>)

\* v.ts: const a = b  const b = a  function g(){ a() }
V4 == SourceFileNode(<<VarDecl("a", 0, <<Ident("b", 10)>>),
                       VarDecl("b", 12, <<Ident("a", 22)>>),
                       FnDecl("g", 24, 2, <<CallId("a", 38)>>)>>)

\* u.ts: export function f(){}  function w(){ const f = () => {} }
U4 == SourceFileNode(<<FnDecl("f", 0, 1, <<>>),
                       FnDecl("w", 21, 3,
                              <<VarDecl("f", 30, <<ArrowFn(34, 1, <<>>)>>)>>)>>)

\* u.ts: a comment line, then function f(){}   (f of U1, moved down)
U5 == SourceFileNode(<<FnDecl("f", 5, 1, <<>>)>>)

\* v.ts: const z = 0  function g(){ w() }   (g where it is in V1; neither f
\*       nor w is declared or imported)
V5 == SourceFileNode(<<VarDecl("z", 0, <<>>),
                       FnDecl("g", 21, 2, <<CallId("w", 35)>>)>>)

\* v.ts: import {f} from './u'  function g(){ f() }
\*       function w(){ function f(){} }
V6 == SourceFileNode(<<ImportSpec("f", "f", "u.ts", 8),
                       FnDecl("g", 21, 2, <<CallId("f", 35)>>),
                       FnDecl("w", 40, 3, <<FnDecl("f", 55, 1, <<>>)>>)>>)

\* ambient declarations: declare function ext(): void
\*   declare var extv: () => void
\*   interface Console { log(): void }  declare var console: Console
Ambient ==
  SourceFileNode(<<FnDecl("ext", 0, 1, <<>>),
                   VarDecl("extv", 30, <<>>),
                   VarDecl("console", 60,
                           <<N("TypeLiteral", "", 70, 0, "", "",
                               <<N("MethodSignature", "log", 80, 0, "", "", <<>>)>>)>>)>>)

Contents(f) ==
  CASE f = "u.ts" -> {U1, U2}
    [] f = "v.ts" -> {V1, V2, V3}

\* the texts of a workspace under edit: f grows, gains a nested function
\* and a sibling, and loses them again; v.ts gets two variables each
\* initialised by the other
EditContents(f) ==
  CASE f = "u.ts" -> {U1, U3}
    [] f = "v.ts" -> {V1, V4}

\* the texts of a workspace whose calls are matched by name: u.ts gains a
\* second function named f; v.ts loses its import and calls w, or gains a
\* nested f of its own
ScanContents(f) ==
  CASE f = "u.ts" -> {U1, U4, U5}
    [] f = "v.ts" -> {V1, V5, V6}

(***************************************************************************)
(* The compiled program (ts.createProgram): order is getSourceFiles(),     *)
(* tree maps each source file name to its tree; and the answers of its     *)
(* type checker.                                                           *)
(***************************************************************************)
FunctionLikeKinds ==
  {"FunctionDeclaration", "MethodDeclaration", "Constructor",
   "FunctionExpression", "ArrowFunction", "GetAccessor", "SetAccessor"}

isFunctionLikeDeclaration(node) == node.kind \in FunctionLikeKinds

getFunctionName(node) ==
  CASE node.kind \in {"FunctionDeclaration", "FunctionExpression"} ->
         IF node.name = "" THEN "anonymous" ELSE node.name
    [] node.kind \in {"MethodDeclaration", "GetAccessor", "SetAccessor"} ->
         node.name
    [] node.kind = "Constructor" -> "constructor"
    [] node.kind = "ArrowFunction" -> "anonymous"
    [] OTHER -> "unknown"

\* decl.initializer of a variable declaration, NoNode when it has none
Initializer(decl) ==
  IF decl.kind = "VariableDeclaration" /\ Len(decl.children) > 0
       /\ decl.children[Len(decl.children)].kind # "TypeLiteral"
  THEN decl.children[Len(decl.children)]
  ELSE NoNode

NoPath == <<>>

NoSymbol == [file |-> NoPath, name |-> "", ns |-> "none", owner |-> ""]

UnknownSymbol == [file |-> NoPath, name |-> "", ns |-> "unknown", owner |-> ""]

LocalSym(p, n) == [file |-> p, name |-> n, ns |-> "local", owner |-> ""]

ExportSym(p, n) == [file |-> p, name |-> n, ns |-> "export", owner |-> ""]

MemberSym(p, owner, n) == [file |-> p, name |-> n, ns |-> "member", owner |-> owner]

LocalDeclKinds ==
  {"FunctionDeclaration", "VariableDeclaration", "ImportSpecifier",
   "NamespaceImport"}

TopLevel(prog, p) == prog.tree[p].children

\* the members of the type literal of variable `owner` of file p
Members(prog, p, owner) ==
  LET vs == SelectSeq(TopLevel(prog, p),
                      LAMBDA d : d.kind = "VariableDeclaration" /\ d.name = owner
                                 /\ Len(d.children) > 0
                                 /\ d.children[1].kind = "TypeLiteral")
  IN IF Len(vs) = 0 THEN <<>> ELSE vs[1].children[1].children

\* symbol.getDeclarations()
getDeclarations(prog, sym) ==
  CASE sym.ns = "local" ->
         SelectSeq(TopLevel(prog, sym.file),
                   LAMBDA d : d.kind \in LocalDeclKinds /\ d.name = sym.name)
    [] sym.ns = "export" ->
         SelectSeq(TopLevel(prog, sym.file),
                   LAMBDA d : d.kind = "ExportSpecifier" /\ d.name = sym.name)
    [] sym.ns = "member" ->
         SelectSeq(Members(prog, sym.file, sym.owner),
                   LAMBDA d : d.name = sym.name)
    [] OTHER -> <<>>

\* the name n as seen from file p: a module-level declaration of p, else a
\* global of a declaration file of the program
LookupName(prog, p, n) ==
  IF Len(getDeclarations(prog, LocalSym(p, n))) > 0 THEN LocalSym(p, n)
  ELSE LET gs == {g \in DOMAIN prog.tree :
                    /\ isDeclarationFile(g)
                    /\ Len(getDeclarations(prog, LocalSym(g, n))) > 0}
       IN IF gs = {} THEN NoSymbol ELSE LocalSym(CHOOSE g \in gs : TRUE, n)

\* the file a module specifier of file p names, NoPath when the host gives
\* no source file of that name
ResolveModule(prog, p, module) ==
  LET from == IF IsAbsolute(p) THEN p ELSE cwdPath \o p
      cand == SubSeq(from, 1, Len(from) - 1) \o <<module>>
  IN IF cand \in DOMAIN prog.tree THEN cand ELSE NoPath

\* the export n of module file m
ExportOf(prog, m, n) ==
  IF m = NoPath THEN NoSymbol
  ELSE IF \E i \in 1..Len(TopLevel(prog, m)) :
            /\ TopLevel(prog, m)[i].kind \in {"FunctionDeclaration", "VariableDeclaration"}
            /\ TopLevel(prog, m)[i].name = n
       THEN LocalSym(m, n)
       ELSE IF Len(getDeclarations(prog, ExportSym(m, n))) > 0
            THEN ExportSym(m, n)
            ELSE NoSymbol

IsAlias(prog, sym) ==
  /\ Len(getDeclarations(prog, sym)) > 0
  /\ getDeclarations(prog, sym)[1].kind \in {"ImportSpecifier", "ExportSpecifier"}

\* one step of alias resolution
ImmediateTarget(prog, sym) ==
  LET d == getDeclarations(prog, sym)[1]
  IN IF d.kind = "ImportSpecifier" \/ d.module # ""
     THEN ExportOf(prog, ResolveModule(prog, sym.file, d.module), d.prop)
     ELSE LookupName(prog, sym.file, d.prop)

RECURSIVE ResolveAlias(_, _, _)
ResolveAlias(prog, sym, seen) ==
  IF sym = NoSymbol \/ sym \in seen THEN UnknownSymbol
  ELSE IF IsAlias(prog, sym)
       THEN ResolveAlias(prog, ImmediateTarget(prog, sym), seen \cup {sym})
       ELSE sym

\* typeChecker.getAliasedSymbol(symbol)
getAliasedSymbol(prog, sym) == ResolveAlias(prog, sym, {})

\* typeChecker.getSymbolAtLocation(identifier) for a use of name n in file p:
\* aliases are not resolved
getSymbolAtLocation(prog, p, n) == LookupName(prog, p, n)

\* typeChecker.getSymbolAtLocation(decl.name) for the name of a declaration:
\* the symbol of the declaration itself
getSymbolAtDeclName(prog, sym, decl) == sym

\* the property prop of the type of the symbol os of name obj: an export of
\* the module for a namespace import, else a member of the declared type
PropertyOfSymbol(prog, obj, prop, os) ==
  IF os = NoSymbol \/ Len(getDeclarations(prog, os)) = 0 THEN NoSymbol
  ELSE IF getDeclarations(prog, os)[1].kind = "NamespaceImport"
       THEN ExportOf(prog, ResolveModule(prog, os.file,
                                         getDeclarations(prog, os)[1].module),
                     prop)
       ELSE IF Len(getDeclarations(prog, MemberSym(os.file, obj, prop))) > 0
            THEN MemberSym(os.file, obj, prop)
            ELSE NoSymbol

\* typeChecker.getPropertyOfType(typeof obj, prop)
getPropertyOfType(prog, p, obj, prop) ==
  PropertyOfSymbol(prog, obj, prop, LookupName(prog, p, obj))

\* typeChecker.getSymbolAtLocation(node.expression.name) of obj.prop
getSymbolAtProperty(prog, p, obj, prop) == getPropertyOfType(prog, p, obj, prop)

(***************************************************************************)
(* Symbol Resolver.                                                        *)
(***************************************************************************)
Null == [found |-> FALSE, diverged |-> FALSE, node |-> NoNode, file |-> NoPath]

Diverged == [found |-> FALSE, diverged |-> TRUE, node |-> NoNode, file |-> NoPath]

Target(node, file) ==
  [found |-> TRUE, diverged |-> FALSE, node |-> node, file |-> file]

\* resolveSymbolToNode(symbol); `seen` are the symbols of the pending calls:
\* meeting one of them again means the recursion does not end
RECURSIVE resolveSymbolToNodeRec(_, _, _)

\* the body of resolveSymbolToNode from `const decl = declarations[0]` on
resolveDeclaration(prog, symbol, next, decl, init, initializerSymbol, importSymbol, exportedSymbol) ==
  IF isFunctionLikeDeclaration(decl)
  THEN Target(decl, symbol.file)
  ELSE IF decl.kind = "VariableDeclaration" /\ init # NoNode
          /\ isFunctionLikeDeclaration(init)
  THEN Target(init, symbol.file)
  ELSE IF decl.kind = "VariableDeclaration" /\ init # NoNode
          /\ init.kind = "Identifier"
          /\ initializerSymbol # NoSymbol
          /\ initializerSymbol # symbol
  THEN resolveSymbolToNodeRec(prog, initializerSymbol, next)
  ELSE IF decl.kind = "ImportSpecifier"
          /\ importSymbol # NoSymbol /\ importSymbol # symbol
          /\ exportedSymbol # NoSymbol /\ exportedSymbol # symbol
  THEN resolveSymbolToNodeRec(prog, exportedSymbol, next)
  ELSE IF decl.kind = "ExportSpecifier"
          /\ exportedSymbol # NoSymbol /\ exportedSymbol # symbol
  THEN resolveSymbolToNodeRec(prog, exportedSymbol, next)
  ELSE Null

resolveSymbolToNodeRec(prog, symbol, seen) ==
  IF symbol \in seen THEN Diverged
  ELSE IF symbol = NoSymbol \/ Len(getDeclarations(prog, symbol)) = 0 THEN Null
  ELSE resolveDeclaration(
         prog, symbol, seen \cup {symbol},
         getDeclarations(prog, symbol)[1],
         Initializer(getDeclarations(prog, symbol)[1]),
         getSymbolAtLocation(prog, symbol.file,
                             Initializer(getDeclarations(prog, symbol)[1]).name),
         getSymbolAtDeclName(prog, symbol, getDeclarations(prog, symbol)[1]),
         getAliasedSymbol(prog, symbol))

resolveSymbolToNode(prog, symbol) == resolveSymbolToNodeRec(prog, symbol, {})

\* the concatenation of a sequence of sequences
RECURSIVE Flatten(_)
Flatten(seqs) ==
  IF Len(seqs) = 0 THEN <<>> ELSE seqs[1] \o Flatten(Tail(seqs))

\* findFunctionsWithNameInFile(sf, name), applied to a node of sf
RECURSIVE findFunctionsWithName(_, _)
findFunctionsWithName(node, name) ==
  (IF isFunctionLikeDeclaration(node) /\ getFunctionName(node) = name
   THEN <<node>> ELSE <<>>)
  \o (IF node.kind = "VariableDeclaration" /\ node.name = name
         /\ Initializer(node) # NoNode
         /\ isFunctionLikeDeclaration(Initializer(node))
      THEN <<Initializer(node)>> ELSE <<>>)
  \o Flatten([i \in 1..Len(node.children) |->
                findFunctionsWithName(node.children[i], name)])

(***************************************************************************)
(* Graph Store: the four tables of the schema.  Node tables have a primary *)
(* key; relationship tables are multisets.  Every query yields ok (FALSE:  *)
(* the query raised) and the store after it.                               *)
(***************************************************************************)
EmptyStore ==
  [files |-> EmptyBag, funcs |-> {}, has |-> EmptyBag, calls |-> EmptyBag]

Id(path, pos) == <<path, pos>>

NoId == <<NoPath, 0>>

Ok(st) == [ok |-> TRUE, st |-> st]

Raised(st) == [ok |-> FALSE, st |-> st]

BagAdd(B, e) == B (+) SetToBag({e})

BagRemoveAll(B, S) == [x \in (DOMAIN B) \ S |-> B[x]]

FuncIds(st) == {r.id : r \in st.funcs}

\* MATCH (f:File) RETURN count(f)
CountFiles(st) == BagCardinality(st.files)

\* if (count > 0) return
\* a guard that never finds the store populated
NeverPopulated(st) == FALSE

AlreadyPopulated(st) == CountFiles(st) > 0

\* CREATE (f:File {path})
CreateFile(st, path) ==
  IF BagIn(path, st.files) THEN Raised(st)
  ELSE Ok([st EXCEPT !.files = BagAdd(@, path)])

\* MERGE (f:File {path})
MergeFile(st, path) ==
  IF BagIn(path, st.files) THEN Ok(st)
  ELSE Ok([st EXCEPT !.files = BagAdd(@, path)])

\* MERGE (func:Function {id, name, startLine, ...}): matches on every
\* property; creating a second node with the id of another one raises
MergeFunction(st, rec) ==
  IF rec \in st.funcs THEN Ok(st)
  ELSE IF rec.id \in FuncIds(st) THEN Raised(st)
       ELSE Ok([st EXCEPT !.funcs = @ \cup {rec}])

\* MATCH (f:File {path}), (func:Function {id}) MERGE (f)-[:HasFunction]->(func)
LinkHasFunction(st, path, id) ==
  IF BagIn(path, st.files) /\ id \in FuncIds(st) /\ ~BagIn(<<path, id>>, st.has)
  THEN Ok([st EXCEPT !.has = BagAdd(@, <<path, id>>)])
  ELSE Ok(st)

\* CREATE in place of MERGE: an edge for every call
CreateCalls(st, caller, callee) ==
  IF caller \in FuncIds(st) /\ callee \in FuncIds(st)
  THEN Ok([st EXCEPT !.calls = BagAdd(@, <<caller, callee>>)])
  ELSE Ok(st)

\* MATCH (caller:Function {id}), (callee:Function {id})
\* MERGE (caller)-[:Calls]->(callee)
MergeCalls(st, caller, callee) ==
  IF caller \in FuncIds(st) /\ callee \in FuncIds(st)
     /\ ~BagIn(<<caller, callee>>, st.calls)
  THEN Ok([st EXCEPT !.calls = BagAdd(@, <<caller, callee>>)])
  ELSE Ok(st)

\* MATCH (f:File {path})-[:HasFunction]->(func:Function) RETURN func.id, ...
FunctionsOfFile(st, path) ==
  {id \in FuncIds(st) : BagIn(path, st.files) /\ BagIn(<<path, id>>, st.has)}

\* a pattern whose two ends are distinct nodes: a self edge is not matched
DeleteCallsToOthers(st, id) ==
  IF id \in FuncIds(st)
  THEN Ok([st EXCEPT !.calls =
             BagRemoveAll(@, {e \in DOMAIN @ :
                                (e[1] = id \/ e[2] = id) /\ e[1] # e[2]})])
  ELSE Ok(st)

\* a directed pattern: only the edges the function is the caller of
DeleteCallsOutgoing(st, id) ==
  IF id \in FuncIds(st)
  THEN Ok([st EXCEPT !.calls = BagRemoveAll(@, {e \in DOMAIN @ : e[1] = id})])
  ELSE Ok(st)

\* MATCH (func:Function {id})-[r:Calls]-() DELETE r
DeleteCalls(st, id) ==
  IF id \in FuncIds(st)
  THEN Ok([st EXCEPT !.calls =
             BagRemoveAll(@, {e \in DOMAIN @ : e[1] = id \/ e[2] = id})])
  ELSE Ok(st)

\* a pruning query that removes the File node along with the function
DeleteFunctionAndFile(st, path, id) ==
  IF id \notin FunctionsOfFile(st, path) THEN Ok(st)
  ELSE Ok([st EXCEPT !.files = BagRemoveAll(@, {path}),
                     !.has = BagRemoveAll(@, {e \in DOMAIN @ : e[1] = path}),
                     !.funcs = {r \in @ : r.id # id}])

\* MATCH (f:File {path})-[r:HasFunction]->(func:Function {id}) DELETE r, func
\* raises when func still has a connected edge
DeleteFunction(st, path, id) ==
  IF id \notin FunctionsOfFile(st, path) THEN Ok(st)
  ELSE LET has2 == BagRemoveAll(st.has, {<<path, id>>})
       IN IF \/ \E e \in DOMAIN has2 : e[2] = id
             \/ \E e \in DOMAIN st.calls : e[1] = id \/ e[2] = id
          THEN Raised(st)
          ELSE Ok([st EXCEPT !.has = has2,
                             !.funcs = {r \in @ : r.id # id}])

(***************************************************************************)
(* Graph Synchronizer.  A pass keeps its pending work in todo; Step takes  *)
(* the head item, issues the query it stands for (fault: the store raises) *)
(* and puts the work that follows it in front of the rest.                 *)
(***************************************************************************)
Item(op, node, file, caller) ==
  [op |-> op, node |-> node, file |-> file, caller |-> caller]

Pass(todo, file) ==
  [todo |-> todo, stack |-> <<>>, existing |-> {}, file |-> file,
   log |-> <<>>, thrown |-> FALSE]

\* the Function record of a function-like node of file `file`
FuncRec(file, node) ==
  [id |-> Id(file, node.pos), name |-> getFunctionName(node), loc |-> node.loc]

\* a traversal that does not descend into call expressions
ChildrenUnlessCall(node, file) ==
  IF node.kind = "CallExpression" THEN <<>>
  ELSE [i \in 1..Len(node.children) |-> Item("visit", node.children[i], file, NoId)]

\* a traversal that stops at every node
NoVisitChildren(node, file) == <<>>

\* for (const child of node.getChildren()) await visitNode(child)
VisitChildren(node, file) ==
  [i \in 1..Len(node.children) |-> Item("visit", node.children[i], file, NoId)]

\* callExprSymbol of a call expression of file `file`
callExprSymbol(prog, file, node) ==
  LET expr == node.children[1]
  IN IF expr.kind = "PropertyAccessExpression"
     THEN LET direct == getSymbolAtProperty(prog, file, expr.children[1].name, expr.name)
          IN IF direct = NoSymbol
             THEN getPropertyOfType(prog, file, expr.children[1].name, expr.name)
             ELSE direct
     ELSE getSymbolAtLocation(prog, file, expr.name)

\* a traversal that has no name-based scan
NoNameScan(prog, file, symName, caller) == <<>>

\* the name-based scan of the other source files of the program
NameScan(prog, file, symName, caller) ==
  IF symName \in {"", "undefined", "__promisify__"} THEN <<>>
  ELSE Flatten([k \in 1..Len(prog.order) |->
                  LET sf == prog.order[k]
                      fns == findFunctionsWithName(prog.tree[sf], symName)
                  IN IF isDeclarationFile(sf) \/ sf = file THEN <<>>
                     ELSE [i \in 1..Len(fns) |->
                             Item("calleeMerge", fns[i], sf, caller)]])

\* the work a call whose callee symbol is sym, resolved to targetNode, gives
\* rise to inside function `caller`
ResolvedCallItems(prog, file, caller, sym, targetNode) ==
  IF sym = NoSymbol THEN <<>>
  ELSE IF targetNode.diverged THEN <<Item("throw", NoNode, file, caller)>>
  ELSE IF targetNode.found
       THEN IF ~isDeclarationFile(targetNode.file)
               /\ isFunctionLikeDeclaration(targetNode.node)
            THEN <<Item("calleeMerge", targetNode.node, targetNode.file, caller)>>
            ELSE <<>>
       ELSE NameScan(prog, file, sym.name, caller)

\* the work a call expression met inside function `caller` gives rise to
CallItems(prog, file, node, caller) ==
  ResolvedCallItems(prog, file, caller, callExprSymbol(prog, file, node),
                    resolveSymbolToNode(prog, callExprSymbol(prog, file, node)))

\* the ids the visitor of updateKuzuDatabase collects below a node
RECURSIVE CollectIds(_, _)
CollectIds(filePath, node) ==
  (IF isFunctionLikeDeclaration(node) THEN {Id(filePath, node.pos)} ELSE {})
  \cup UNION {CollectIds(filePath, node.children[i]) : i \in 1..Len(node.children)}

\* ids built from the path relative to the workspace root
newFunctionIdsRelative(prog, filePath) ==
  UNION {CollectIds(relative(rootPath, filePath), prog.tree[filePath].children[i]) :
           i \in 1..Len(prog.tree[filePath].children)}

newFunctionIds(prog, filePath) ==
  UNION {CollectIds(filePath, prog.tree[filePath].children[i]) :
           i \in 1..Len(prog.tree[filePath].children)}

RECURSIVE IdSeq(_)
IdSeq(ids) ==
  IF ids = {} THEN <<>>
  ELSE LET x == CHOOSE x \in ids : \A y \in ids : x[2] <= y[2]
       IN <<x>> \o IdSeq(ids \ {x})

\* a pruning pass that is given up when a query of the traversal failed
PruneItemsUnlessErrored(prog, ps) ==
  IF \E i \in DOMAIN ps.log : ps.log[i] = "error" THEN <<>>
  ELSE LET stale == IdSeq(ps.existing \ newFunctionIds(prog, ps.file))
       IN Flatten([k \in 1..Len(stale) |->
                     <<Item("deleteCalls", NoNode, ps.file, stale[k]),
                       Item("deleteFunction", NoNode, ps.file, stale[k])>>])

\* a pruning pass that drops the Calls edges of every function the file had
PruneItemsEveryCall(prog, ps) ==
  LET stale == IdSeq(ps.existing \ newFunctionIds(prog, ps.file))
      all == IdSeq(ps.existing)
  IN [k \in 1..Len(all) |-> Item("deleteCalls", NoNode, ps.file, all[k])]
     \o [k \in 1..Len(stale) |-> Item("deleteFunction", NoNode, ps.file, stale[k])]

\* for (const func of existingFunctions) if (!newFunctionIds.has(func.id)) ...
PruneItems(prog, ps) ==
  LET stale == IdSeq(ps.existing \ newFunctionIds(prog, ps.file))
  IN Flatten([k \in 1..Len(stale) |->
                <<Item("deleteCalls", NoNode, ps.file, stale[k]),
                  Item("deleteFunction", NoNode, ps.file, stale[k])>>])

Logged(ps, q) == [ps EXCEPT !.log = Append(@, q)]

\* the query q failed: console.error
Errored(ps, q) == Logged(Logged(ps, q), "error")

Throw(ps) == [ps EXCEPT !.todo = <<>>, !.thrown = TRUE]

\* what is common to the steps: the head item, the pass without it, and the
\* pass with more work put in front of the rest
Current(ps) == ps.todo[1]

Rest(ps) == [ps EXCEPT !.todo = Tail(@)]

Then(ps, items) == [ps EXCEPT !.todo = items \o Tail(@)]

Result(st, ps) == [st |-> st, ps |-> ps]

\* the outermost enclosing function
Bottom(stack) == stack[1]

\* functionStack[functionStack.length - 1]
Top(stack) == stack[Len(stack)]

\* visitNode: a function-like node is upserted and linked, then its children
\* are visited with its id on the function stack; a call expression met
\* inside a function is resolved; any other node passes to its children
VisitStep(prog, st, ps, fault) ==
  LET it == Current(ps)
      fid == Id(it.file, it.node.pos)
      mergeFn == IF fault THEN Raised(st)
                 ELSE MergeFunction(st, FuncRec(it.file, it.node))
      link == IF fault THEN Raised(st) ELSE LinkHasFunction(st, it.file, fid)
  IN CASE it.op = "visit" /\ isFunctionLikeDeclaration(it.node) ->
            Result(mergeFn.st,
                   IF mergeFn.ok
                   THEN Logged(Then(ps, <<Item("link", it.node, it.file, NoId)>>),
                               "mergeFunction")
                   ELSE Errored(Rest(ps), "mergeFunction"))
       [] it.op = "visit" /\ ~isFunctionLikeDeclaration(it.node)
            /\ it.node.kind = "CallExpression" /\ Len(ps.stack) > 0 ->
            Result(st, Then(ps, CallItems(prog, it.file, it.node,
                                          Top(ps.stack))
                                \o VisitChildren(it.node, it.file)))
       [] it.op = "visit" /\ ~isFunctionLikeDeclaration(it.node)
            /\ ~(it.node.kind = "CallExpression" /\ Len(ps.stack) > 0) ->
            Result(st, Then(ps, VisitChildren(it.node, it.file)))
       [] it.op = "link" ->
            Result(link.st,
                   IF link.ok
                   THEN Logged([Then(ps, VisitChildren(it.node, it.file)
                                         \o <<Item("pop", NoNode, it.file, NoId)>>)
                                EXCEPT !.stack = Append(@, fid)],
                               "linkHasFunction")
                   ELSE Errored(Rest(ps), "linkHasFunction"))
       [] it.op = "pop" ->
            Result(st, [Rest(ps) EXCEPT !.stack = SubSeq(@, 1, Len(@) - 1)])

\* createOrGetFunctionNode for a callee, then the Calls edge to it
CalleeStep(st, ps, fault) ==
  LET it == Current(ps)
      fid == Id(it.file, it.node.pos)
      mergeFn == IF fault THEN Raised(st)
                 ELSE MergeFunction(st, FuncRec(it.file, it.node))
      link == IF fault THEN Raised(st) ELSE LinkHasFunction(st, it.file, fid)
  IN CASE it.op = "calleeMerge" ->
            Result(mergeFn.st,
                   IF mergeFn.ok
                   THEN Logged(Then(ps, <<Item("calleeLink", it.node, it.file,
                                               it.caller)>>), "mergeFunction")
                   ELSE Errored(Rest(ps), "mergeFunction"))
       [] it.op = "calleeLink" ->
            Result(link.st,
                   IF link.ok
                   THEN Logged(Then(ps, <<Item("calls", it.node, it.file,
                                               it.caller)>>), "linkHasFunction")
                   ELSE Errored(Rest(ps), "linkHasFunction"))
       [] it.op = "calls" ->
            Result(IF fault THEN st ELSE MergeCalls(st, it.caller, fid).st,
                   IF fault THEN Errored(Rest(ps), "mergeCalls")
                   ELSE Logged(Rest(ps), "mergeCalls"))

\* the function is removed with its HasFunction edge by a store that does not
\* refuse, and its Calls edges are left alone
PruneStepForce(st, it, fault) ==
  IF fault \/ it.op = "deleteCalls" THEN st
  ELSE IF it.caller \notin FunctionsOfFile(st, it.file) THEN st
       ELSE [st EXCEPT !.has = BagRemoveAll(@, {<<it.file, it.caller>>}),
                       !.funcs = {r \in @ : r.id # it.caller}]

\* the two queries that remove the stale function it.caller of file it.file;
\* neither failure stops the loop
PruneStep(st, it, fault) ==
  IF fault THEN st
  ELSE IF it.op = "deleteCalls" THEN DeleteCalls(st, it.caller).st
       ELSE DeleteFunction(st, it.file, it.caller).st

\* updateKuzuDatabase around the traversal
UpdateStep(prog, st, ps, fault) ==
  LET it == Current(ps)
  IN CASE it.op = "existing" ->
            Result(st, Logged(IF fault THEN Throw(ps)
                              ELSE [Rest(ps) EXCEPT
                                      !.existing = FunctionsOfFile(st, it.file)],
                              "existingFunctions"))
       [] it.op = "mergeFile" ->
            Result(IF fault THEN st ELSE MergeFile(st, it.file).st,
                   Logged(IF fault THEN Throw(ps) ELSE Rest(ps), "mergeFile"))
       [] it.op = "collect" -> Result(st, Then(ps, PruneItems(prog, ps)))
       [] it.op \in {"deleteCalls", "deleteFunction"} ->
            Result(PruneStep(st, it, fault),
                   IF fault \/ (it.op = "deleteFunction"
                                 /\ ~DeleteFunction(st, it.file, it.caller).ok)
                   THEN Errored(Rest(ps), it.op)
                   ELSE Logged(Rest(ps), it.op))

\* initialLoad and updateKuzuDatabaseForProject around the traversals
BulkStep(st, ps, fault) ==
  LET it == Current(ps)
      create == IF fault THEN Raised(st) ELSE CreateFile(st, it.file)
  IN CASE it.op = "count" ->
            Result(st, Logged(IF fault \/ AlreadyPopulated(st)
                              THEN [ps EXCEPT !.todo = <<>>]
                              ELSE Rest(ps), "count"))
       [] it.op = "countProject" ->
            Result(st, Logged(IF fault THEN Throw(ps)
                              ELSE IF AlreadyPopulated(st)
                                   THEN [ps EXCEPT !.todo = <<>>]
                                   ELSE Rest(ps), "count"))
       [] it.op = "createFile" ->
            Result(create.st,
                   Logged(IF create.ok THEN Rest(ps) ELSE Throw(ps), "createFile"))

Step(prog, st, ps, fault) ==
  CASE Current(ps).op \in {"visit", "link", "pop"} -> VisitStep(prog, st, ps, fault)
    [] Current(ps).op \in {"calleeMerge", "calleeLink", "calls"} ->
         CalleeStep(st, ps, fault)
    [] Current(ps).op \in {"existing", "mergeFile", "collect", "deleteCalls",
                        "deleteFunction"} -> UpdateStep(prog, st, ps, fault)
    [] Current(ps).op \in {"count", "countProject", "createFile"} ->
         BulkStep(st, ps, fault)
    [] Current(ps).op = "throw" -> Result(st, Throw(ps))

\* a pass run to its end, every query awaited in turn and none raising
\* for a reason outside the store
RECURSIVE Run(_, _, _)

Continue(prog, r) == Run(prog, r.st, r.ps)

Run(prog, st, ps) ==
  IF Len(ps.todo) = 0 THEN [st |-> st, ps |-> ps]
  ELSE Continue(prog, Step(prog, st, ps, FALSE))

(***************************************************************************)
(* Bulk Loader and incremental updater.                                    *)
(***************************************************************************)
FileOrder == <<"u.ts", "v.ts">>

Present(d) == {f \in WsFiles : d[f] # NoNode}

\* the module specifiers of a tree
ImportsOf(tree) ==
  {tree.children[i].module : i \in {j \in 1..Len(tree.children) :
                                       tree.children[j].module # ""}}

RECURSIVE Reachable(_, _)
Reachable(d, fs) ==
  LET more == fs \cup (Present(d) \cap UNION {ImportsOf(d[f]) : f \in fs})
  IN IF more = fs THEN fs ELSE Reachable(d, more)

\* updateKuzuDatabaseForProject: one program over the listed files, named by
\* their paths relative to the workspace root; the host serves no other file
BulkProgram(d, files) ==
  LET name(f) == relative(rootPath, fsPath(f))
  IN [order |-> [i \in 1..Len(files) |-> name(files[i])],
      tree |-> [p \in {name(files[i]) : i \in 1..Len(files)} |->
                  d[p[Len(p)]]]]

\* updateKuzuDatabase: a program of the saved file alone; the host reads the
\* files it imports, and the default library, from the disk
UpdateProgram(d, f, content) ==
  LET others == Reachable([d EXCEPT ![f] = content], {f}) \ {f}
      imported == SelectSeq(FileOrder, LAMBDA x : x \in others)
  IN [order |-> <<LibPath>> \o [i \in 1..Len(imported) |-> fsPath(imported[i])]
                \o <<fsPath(f)>>,
      tree |-> [p \in {LibPath, fsPath(f)} \cup {fsPath(x) : x \in others} |->
                  IF p = LibPath THEN Ambient
                  ELSE IF p = fsPath(f) THEN content
                  ELSE d[p[Len(p)]]]]

\* initialLoad followed by updateKuzuDatabaseForProject
BulkPass(d, files) ==
  LET prog == BulkProgram(d, files)
  IN Pass(<<Item("count", NoNode, NoPath, NoId),
            Item("countProject", NoNode, NoPath, NoId)>>
          \o Flatten([k \in 1..Len(prog.order) |->
                        <<Item("createFile", NoNode, prog.order[k], NoId),
                          Item("visit", prog.tree[prog.order[k]],
                               prog.order[k], NoId)>>]),
          NoPath)

\* updateKuzuDatabase(filePath, content, conn)
UpdatePass(filePath, content) ==
  Pass(<<Item("existing", NoNode, filePath, NoId),
         Item("mergeFile", NoNode, filePath, NoId),
         Item("visit", content, filePath, NoId),
         Item("collect", NoNode, filePath, NoId)>>,
       filePath)

RunBulk(d, st, files) == Run(BulkProgram(d, files), st, BulkPass(d, files))

RunUpdate(d, st, f, content) ==
  Run(UpdateProgram(d, f, content), st, UpdatePass(fsPath(f), content))

\* the enumerations findFiles can return for the files on the disk
Enumerations(d) ==
  {s \in [1..Cardinality(Present(d)) -> Present(d)] :
     \A i, j \in DOMAIN s : i # j => s[i] # s[j]}

(***************************************************************************)
(* Workspace analysis: the dependency ids analyzeWorkspace assembles for   *)
(* one File node of the store.                                             *)
(***************************************************************************)
\* MATCH (caller:Function {id})-[:Calls]->(callee:Function)
\* MATCH (f:File)-[:HasFunction]->(callee) RETURN callee.id, f.path
calledFunctions(st, id) ==
  {row \in [id : FuncIds(st), path : DOMAIN st.files] :
     /\ BagIn(<<id, row.id>>, st.calls)
     /\ BagIn(<<row.path, row.id>>, st.has)}

\* every callee is kept, whatever its file
calledFunctionIdsUnfiltered(st, filePath) ==
  {row.id : row \in UNION {calledFunctions(st, func) :
                             func \in FunctionsOfFile(st, filePath)}}

\* calledFunctions.filter((cf) => cf.path !== filePath).map((cf) => cf.id),
\* collected into a Set over the functions of the file
calledFunctionIds(st, filePath) ==
  {row.id : row \in {cf \in UNION {calledFunctions(st, func) :
                                     func \in FunctionsOfFile(st, filePath)} :
                       cf.path # filePath}}

(***************************************************************************)
(* The system: the workspace files on the disk and the store.  lastOp and  *)
(* log record the last operation and the queries it issued; again: it      *)
(* repeats the update before it (same file, same content).                 *)
(***************************************************************************)
Op(kind, file, content, thrown, again) ==
  [kind |-> kind, file |-> file, content |-> content, thrown |-> thrown,
   again |-> again]

NoError == "none"

\* the settled states of initializationPromise
Pending == [state |-> "pending", error |-> NoError]

Ready == [state |-> "ready", error |-> NoError]

Failed(error) == [state |-> "failed", error |-> error]

NoJob == [filePath |-> NoPath, content |-> NoNode, deps |-> {}]

\* no update is under way
NoPass == [active |-> FALSE]

\* the places that build a query text from a string value
Sites == {"synchronizer", "bulkLoader", "updater", "analysis"}

NoLiteral == <<"none">>

NoLiterals == [site \in Sites |-> NoLiteral]

\* no document cached yet
NoText == "none"

\* the save listener's module state right after activation
ListenerIdle ==
  /\ isAnalyzing = FALSE
  /\ codebaseCache = [f \in WsFiles |-> NoText]
  /\ hasSentInitialCodebase = FALSE
  /\ previousCodebaseCache = [f \in WsFiles |-> NoText]
  /\ analyses = <<>>

\* no call of retryWithExponentialBackoff in progress
NoRetry == [status |-> "none"]

\* the graph operations on an initialised store, the queue left alone
Init ==
  /\ disk \in {d \in [WsFiles -> {NoNode, U1, U2, V1, V2, V3}] :
                 \A f \in WsFiles : d[f] \in Contents(f) \cup {NoNode}}
  /\ store = EmptyStore
  /\ lastOp = Op("init", NoPath, NoNode, FALSE, FALSE)
  /\ log = <<>>
  /\ conn = Ready
  /\ processorStarted = TRUE
  /\ analysisQueue = <<>>
  /\ currentJob = NoJob
  /\ pass = NoPass
  /\ text = <<>>
  /\ literal = NoLiterals
  /\ ListenerIdle
  /\ retry = NoRetry

\* the pass r has ended: the store it leaves, and the record of it
Commit(r, kind, file, content, again) ==
  /\ store' = r.st
  /\ log' = r.ps.log
  /\ lastOp' = Op(kind, file, content, r.ps.thrown, again)

\* the command shift-v2.initialLoad
InitialLoad ==
  \E files \in Enumerations(disk) :
    /\ Commit(RunBulk(disk, store, files), "initialLoad", NoPath, NoNode, FALSE)
    /\ UNCHANGED disk

\* a document saved in the editor: updateKuzuDatabase on its text
Save(f, content) ==
  /\ disk' = [disk EXCEPT ![f] = content]
  /\ Commit(RunUpdate(disk, store, f, content), "update", fsPath(f), content,
            lastOp.kind = "update" /\ lastOp.file = fsPath(f)
              /\ lastOp.content = content)

Next ==
  \/ InitialLoad /\ UNCHANGED <<extVars, pass, escVars, llmVars>>
  \/ \E f \in WsFiles : \E content \in Contents(f) :
       Save(f, content) /\ UNCHANGED <<extVars, pass, escVars, llmVars>>

Spec == Init /\ [][Next]_vars

\* the same operations on the workspace under edit
EditInit ==
  /\ disk \in {d \in [WsFiles -> {NoNode, U1, U3, V1, V4}] :
                 \A f \in WsFiles : d[f] \in EditContents(f) \cup {NoNode}}
  /\ store = EmptyStore
  /\ lastOp = Op("init", NoPath, NoNode, FALSE, FALSE)
  /\ log = <<>>
  /\ conn = Ready
  /\ processorStarted = TRUE
  /\ analysisQueue = <<>>
  /\ currentJob = NoJob
  /\ pass = NoPass
  /\ text = <<>>
  /\ literal = NoLiterals
  /\ ListenerIdle
  /\ retry = NoRetry

EditNext ==
  \/ InitialLoad /\ UNCHANGED <<extVars, pass, escVars, llmVars>>
  \/ \E f \in WsFiles : \E content \in EditContents(f) :
       Save(f, content) /\ UNCHANGED <<extVars, pass, escVars, llmVars>>

EditSpec == EditInit /\ [][EditNext]_vars

\* the same operations on the workspace whose calls are matched by name
ScanInit ==
  /\ disk \in {d \in [WsFiles -> {NoNode, U1, U4, U5, V1, V5, V6}] :
                 \A f \in WsFiles : d[f] \in ScanContents(f) \cup {NoNode}}
  /\ store = EmptyStore
  /\ lastOp = Op("init", NoPath, NoNode, FALSE, FALSE)
  /\ log = <<>>
  /\ conn = Ready
  /\ processorStarted = TRUE
  /\ analysisQueue = <<>>
  /\ currentJob = NoJob
  /\ pass = NoPass
  /\ text = <<>>
  /\ literal = NoLiterals
  /\ ListenerIdle
  /\ retry = NoRetry

ScanNext ==
  \/ InitialLoad /\ UNCHANGED <<extVars, pass, escVars, llmVars>>
  \/ \E f \in WsFiles : \E content \in ScanContents(f) :
       Save(f, content) /\ UNCHANGED <<extVars, pass, escVars, llmVars>>

ScanSpec == ScanInit /\ [][ScanNext]_vars

(***************************************************************************)
(* The extension: activation, the two commands, the save listener and the  *)
(* queue processor around the graph operations.                            *)
(***************************************************************************)
MaxQueue == 3

InitSteps == <<"Database", "File", "Function", "HasFunction", "Calls">>

\* a promise that resolves whatever happened
initializeKuzuSwallow(stale, failAt) ==
  [rejected |-> FALSE, connection |-> TRUE, error |-> NoError]

\* initializeKuzu; failAt: the step of InitSteps that throws (0: none);
\* stale: clearing the directory failed and a previous database is opened,
\* whose tables exist already
initializeKuzu(stale, failAt) ==
  IF failAt = 1 \/ (~stale /\ failAt = 0)
  THEN IF failAt = 0
       THEN [rejected |-> FALSE, connection |-> TRUE, error |-> NoError]
       ELSE [rejected |-> TRUE, connection |-> FALSE, error |-> InitSteps[1]]
  ELSE [rejected |-> TRUE, connection |-> FALSE,
        error |-> InitSteps[IF stale THEN 2 ELSE failAt]]

Settle(result) ==
  /\ conn' = IF result.rejected THEN Failed(result.error) ELSE Ready
  /\ processorStarted' = (~result.rejected /\ result.connection)

\* activate: the chain behind initializationPromise
InitializeKuzu(stale, failAt) ==
  /\ conn = Pending
  /\ Settle(initializeKuzu(stale, failAt))
  /\ lastOp' = Op("initializeKuzu", NoPath, NoNode, stale \/ failAt # 0,
                  stale /\ failAt = 0)
  /\ UNCHANGED <<disk, store, log, analysisQueue, currentJob>>

Skipped(kind, file, content) ==
  /\ lastOp' = Op(kind, file, content, FALSE, FALSE)
  /\ UNCHANGED <<store, log, extVars>>

\* the command shift-v2.initialLoad
InitialLoadCommand ==
  /\ conn # Pending
  /\ IF conn = Ready
     THEN InitialLoad /\ UNCHANGED extVars
     ELSE Skipped("initialLoadSkipped", NoPath, NoNode) /\ UNCHANGED disk

addToQueue(job) == analysisQueue' = Append(analysisQueue, job)

\* the save listener
handleDocumentUpdate(f, content) ==
  /\ conn # Pending
  /\ Len(analysisQueue) < MaxQueue
  /\ IF conn = Ready
     THEN /\ Save(f, content)
          /\ addToQueue([filePath |-> fsPath(f), content |-> content,
                         deps |-> {}])
          /\ UNCHANGED <<conn, processorStarted, currentJob>>
     ELSE /\ disk' = [disk EXCEPT ![f] = content]
          /\ Skipped("updateSkipped", fsPath(f), content)

\* path.join(rootPath, filePath)
join(root, p) == root \o (IF IsAbsolute(p) THEN Tail(p) ELSE p)

Readable(d, p) == \E f \in Present(d) : fsPath(f) = join(rootPath, p)

ReadFile(d, p) == d[join(rootPath, p)[Len(join(rootPath, p))]]

PathOfFunction(st, id) ==
  CHOOSE p \in DOMAIN st.files : BagIn(<<p, id>>, st.has)

\* the dependencies whose file can be read
DependencyCode(d, st, ids) ==
  {id \in ids : Readable(d, PathOfFunction(st, id))}

AnalysisJobOf(d, st, filePath) ==
  IF Readable(d, filePath)
  THEN <<[filePath |-> filePath, content |-> ReadFile(d, filePath),
          deps |-> DependencyCode(d, st, calledFunctionIds(st, filePath))]>>
  ELSE <<>>

\* the jobs analyzeWorkspace queues for the File nodes, in the order the
\* query returns them
AnalysisJobs(d, st, order) ==
  Flatten([i \in DOMAIN order |-> AnalysisJobOf(d, st, order[i])])

Orders(S) ==
  {s \in [1..Cardinality(S) -> S] : \A i, j \in DOMAIN s : i # j => s[i] # s[j]}

analyzeWorkspace(r) ==
  /\ Commit(r, "analyze", NoPath, NoNode, FALSE)
  /\ IF r.ps.thrown
     THEN UNCHANGED analysisQueue
     ELSE \E order \in Orders(DOMAIN r.st.files) :
            /\ Len(analysisQueue) + Len(AnalysisJobs(disk, r.st, order))
                 <= MaxQueue
            /\ analysisQueue' = analysisQueue \o AnalysisJobs(disk, r.st, order)

\* the command shift-v2.analyze
AnalyzeCommand ==
  /\ conn # Pending
  /\ IF conn = Ready
     THEN /\ \E files \in Enumerations(disk) :
               analyzeWorkspace(RunBulk(disk, store, files))
          /\ UNCHANGED <<disk, conn, processorStarted, currentJob>>
     ELSE Skipped("analyzeSkipped", NoPath, NoNode) /\ UNCHANGED disk

\* a processor that takes the next job while one is being analysed
ProcessQueueTakeBusy ==
  /\ processorStarted
  /\ analysisQueue # <<>>
  /\ currentJob' = Head(analysisQueue)
  /\ analysisQueue' = Tail(analysisQueue)
  /\ UNCHANGED <<graphVars, conn, processorStarted>>

\* processQueue: the next job is taken when none is being analysed
ProcessQueueTake ==
  /\ processorStarted
  /\ currentJob = NoJob
  /\ analysisQueue # <<>>
  /\ currentJob' = Head(analysisQueue)
  /\ analysisQueue' = Tail(analysisQueue)
  /\ UNCHANGED <<graphVars, conn, processorStarted>>

\* a processor without the finally block: a job whose analysis threw stays
ProcessQueueDoneUnlessThrown(threw) ==
  /\ processorStarted
  /\ currentJob # NoJob
  /\ currentJob' = IF threw THEN currentJob ELSE NoJob
  /\ lastOp' = Op(IF threw THEN "analysisFailed" ELSE "analysisDone",
                  currentJob.filePath, NoNode, threw, FALSE)
  /\ UNCHANGED <<disk, store, log, conn, processorStarted, analysisQueue>>

\* processQueue: analyze and the notifications of the current job have
\* settled, or one of them threw; finally { currentJob = null }
ProcessQueueDone(threw) ==
  /\ processorStarted
  /\ currentJob # NoJob
  /\ currentJob' = NoJob
  /\ lastOp' = Op(IF threw THEN "analysisFailed" ELSE "analysisDone",
                  currentJob.filePath, NoNode, threw, FALSE)
  /\ UNCHANGED <<disk, store, log, conn, processorStarted, analysisQueue>>

ExtContents(f) == IF f = "u.ts" THEN {U1, U2} ELSE {V1}

ExtInit ==
  /\ disk = [f \in WsFiles |-> IF f = "u.ts" THEN U1 ELSE V1]
  /\ store = EmptyStore
  /\ lastOp = Op("init", NoPath, NoNode, FALSE, FALSE)
  /\ log = <<>>
  /\ conn = Pending
  /\ processorStarted = FALSE
  /\ analysisQueue = <<>>
  /\ currentJob = NoJob
  /\ pass = NoPass
  /\ text = <<>>
  /\ literal = NoLiterals
  /\ ListenerIdle
  /\ retry = NoRetry

ExtNext ==
  \/ \E stale \in BOOLEAN : \E failAt \in 0..Len(InitSteps) :
       InitializeKuzu(stale, failAt) /\ UNCHANGED <<pass, escVars, llmVars>>
  \/ InitialLoadCommand /\ UNCHANGED <<pass, escVars, llmVars>>
  \/ AnalyzeCommand /\ UNCHANGED <<pass, escVars, llmVars>>
  \/ \E f \in WsFiles : \E content \in ExtContents(f) :
       handleDocumentUpdate(f, content) /\ UNCHANGED <<pass, escVars, llmVars>>
  \/ ProcessQueueTake /\ UNCHANGED <<pass, escVars, llmVars>>
  \/ \E threw \in BOOLEAN : ProcessQueueDone(threw) /\ UNCHANGED <<pass, escVars, llmVars>>

ExtSpec == ExtInit /\ [][ExtNext]_vars

\* the extension after a successful initialisation: saves and the queue
\* processor
ExtLiveInit ==
  /\ disk = [f \in WsFiles |-> IF f = "u.ts" THEN U1 ELSE V1]
  /\ store = EmptyStore
  /\ lastOp = Op("init", NoPath, NoNode, FALSE, FALSE)
  /\ log = <<>>
  /\ conn = Ready
  /\ processorStarted = TRUE
  /\ analysisQueue = <<>>
  /\ currentJob = NoJob
  /\ pass = NoPass
  /\ text = <<>>
  /\ literal = NoLiterals
  /\ ListenerIdle
  /\ retry = NoRetry

ExtLiveNext ==
  \/ \E f \in WsFiles : \E content \in ExtContents(f) :
       handleDocumentUpdate(f, content) /\ UNCHANGED <<pass, escVars, llmVars>>
  \/ ProcessQueueTake /\ UNCHANGED <<pass, escVars, llmVars>>
  \/ \E threw \in BOOLEAN : ProcessQueueDone(threw) /\ UNCHANGED <<pass, escVars, llmVars>>

\* the processor polls every 100 ms, and every analysis call and every
\* notification settles
ExtFairness ==
  /\ WF_vars(ProcessQueueTake /\ UNCHANGED <<pass, escVars, llmVars>>)
  /\ WF_vars(\E threw \in BOOLEAN : ProcessQueueDone(threw) /\ UNCHANGED <<pass, escVars, llmVars>>)

ExtLiveSpec == ExtLiveInit /\ [][ExtLiveNext]_vars /\ ExtFairness

(***************************************************************************)
(* One update, query by query: each step is one visit of a node or one     *)
(* awaited query; a query may fail for a reason outside the store.         *)
(***************************************************************************)
MaxFaults == 1

StepContents(f) == IF f = "u.ts" THEN {U1, U3} ELSE {}

\* the items that issue a query
IsQuery(it) ==
  \/ it.op = "visit" /\ isFunctionLikeDeclaration(it.node)
  \/ it.op \in {"link", "calleeMerge", "calleeLink", "calls", "existing",
                 "mergeFile", "deleteCalls", "deleteFunction"}

BeginUpdate(f, content) ==
  /\ pass = NoPass
  /\ disk' = [disk EXCEPT ![f] = content]
  /\ pass' = [active |-> TRUE, f |-> f, content |-> content, faults |-> 0,
               ps |-> UpdatePass(fsPath(f), content)]
  /\ UNCHANGED <<store, lastOp, log, extVars, escVars, llmVars>>

Advance(r, fault) ==
  /\ store' = r.st
  /\ log' = r.ps.log
  /\ pass' = [pass EXCEPT !.ps = r.ps,
                           !.faults = IF fault THEN @ + 1 ELSE @]
  /\ UNCHANGED <<disk, lastOp, extVars, escVars, llmVars>>

StepUpdate(fault) ==
  /\ pass # NoPass
  /\ pass.ps.todo # <<>>
  /\ fault => (pass.faults < MaxFaults /\ IsQuery(Current(pass.ps)))
  /\ Advance(Step(UpdateProgram(disk, pass.f, pass.content), store, pass.ps,
                  fault), fault)

EndUpdate ==
  /\ pass # NoPass
  /\ pass.ps.todo = <<>>
  /\ lastOp' = Op("update", fsPath(pass.f), pass.content, pass.ps.thrown, FALSE)
  /\ pass' = NoPass
  /\ UNCHANGED <<disk, store, log, extVars, escVars, llmVars>>

StepInit ==
  /\ disk = [f \in WsFiles |-> IF f = "u.ts" THEN U1 ELSE V1]
  /\ store = EmptyStore
  /\ lastOp = Op("init", NoPath, NoNode, FALSE, FALSE)
  /\ log = <<>>
  /\ conn = Ready
  /\ processorStarted = TRUE
  /\ analysisQueue = <<>>
  /\ currentJob = NoJob
  /\ pass = NoPass
  /\ text = <<>>
  /\ literal = NoLiterals
  /\ ListenerIdle
  /\ retry = NoRetry

StepNext ==
  \/ \E f \in WsFiles : \E content \in StepContents(f) : BeginUpdate(f, content)
  \/ \E fault \in BOOLEAN : StepUpdate(fault)
  \/ EndUpdate

StepSpec == StepInit /\ [][StepNext]_vars

(***************************************************************************)
(* Overlapping saves.  The save listener is an async function that nobody *)
(* awaits: a second save starts its own handleDocumentUpdate while the    *)
(* first is suspended at a query.  pass holds one slot for each of two    *)
(* saves; the second save comes after the first.  Each query is one step. *)
(* log keeps the slots in the order in which their runs of mutations      *)
(* began, up to MaxLog entries.                                           *)
(***************************************************************************)
MaxLog == 3

Slots == {1, 2}

ConcContents(f) == IF f = "u.ts" THEN {U1, U2, U3} ELSE {V1}

NoProgram == [order |-> <<>>, tree |-> <<>>]

IdleSlot ==
  [phase |-> "idle", f |-> "", content |-> NoNode, ps |-> Pass(<<>>, NoPath),
   prog |-> NoProgram]

\* the queries that write to the store
IsMutation(it) == IsQuery(it) /\ it.op # "existing"

\* onDidSaveTextDocument: the document is on the disk, updateKuzuDatabase
\* builds its program and is about to issue its first query
BeginPass(i, f, content) ==
  /\ pass[i].phase = "idle"
  /\ i = 2 => pass[1].phase # "idle"
  /\ disk' = [disk EXCEPT ![f] = content]
  /\ pass' = [pass EXCEPT ![i] =
                [phase |-> "running", f |-> f, content |-> content,
                 ps |-> UpdatePass(fsPath(f), content),
                 prog |-> UpdateProgram(disk, f, content)]]
  /\ UNCHANGED <<store, lastOp, log, extVars, escVars, llmVars>>

AdvanceSlot(i, r, mutation) ==
  /\ store' = r.st
  /\ pass' = [pass EXCEPT ![i].ps = r.ps]
  /\ log' = IF mutation /\ Len(log) < MaxLog
               /\ (Len(log) = 0 \/ log[Len(log)] # i)
            THEN Append(log, i) ELSE log
  /\ UNCHANGED <<disk, lastOp, extVars, escVars, llmVars>>

\* the pass of slot i resumes after an await and runs up to its next one
StepPass(i) ==
  /\ pass[i].phase = "running"
  /\ pass[i].ps.todo # <<>>
  /\ AdvanceSlot(i, Step(pass[i].prog, store, pass[i].ps, FALSE),
                 IsMutation(Current(pass[i].ps)))

EndPass(i) ==
  /\ pass[i].phase = "running"
  /\ pass[i].ps.todo = <<>>
  /\ pass' = [pass EXCEPT ![i].phase = "ended"]
  /\ lastOp' = Op("update", fsPath(pass[i].f), pass[i].content,
                  pass[i].ps.thrown, FALSE)
  /\ UNCHANGED <<disk, store, log, extVars, escVars, llmVars>>

ConcInit ==
  /\ disk = [f \in WsFiles |-> IF f = "u.ts" THEN U1 ELSE V1]
  /\ store = EmptyStore
  /\ lastOp = Op("init", NoPath, NoNode, FALSE, FALSE)
  /\ log = <<>>
  /\ conn = Ready
  /\ processorStarted = TRUE
  /\ analysisQueue = <<>>
  /\ currentJob = NoJob
  /\ pass = [i \in Slots |-> IdleSlot]
  /\ text = <<>>
  /\ literal = NoLiterals
  /\ ListenerIdle
  /\ retry = NoRetry

ConcNext ==
  \/ \E i \in Slots : \E f \in WsFiles : \E content \in ConcContents(f) :
       BeginPass(i, f, content)
  \/ \E i \in Slots : StepPass(i)
  \/ \E i \in Slots : EndPass(i)

ConcSpec == ConcInit /\ [][ConcNext]_vars

(***************************************************************************)
(* Query texts.  A string is a sequence of characters, each one named: the *)
(* characters the escape routines treat apart, and one ordinary letter.    *)
(***************************************************************************)
MaxLen == 3

Quote == "quote"

Backslash == "backslash"

Backtick == "backtick"

Newline == "newline"

Space == "space"

Chars == {"a", Quote, Backslash, Backtick, Newline, Space}

Strings == UNION {[1..n -> Chars] : n \in 0..MaxLen}

\* String.prototype.replace with a global pattern of one character
replace(str, c, by) ==
  Flatten([i \in DOMAIN str |-> IF str[i] = c THEN by ELSE <<str[i]>>])

RECURSIVE trimStart(_)
trimStart(str) ==
  IF str # <<>> /\ Head(str) \in {Space, Newline}
  THEN trimStart(Tail(str))
  ELSE str

RECURSIVE trimEnd(_)
trimEnd(str) ==
  IF str # <<>> /\ str[Len(str)] \in {Space, Newline}
  THEN trimEnd(SubSeq(str, 1, Len(str) - 1))
  ELSE str

trim(str) == trimEnd(trimStart(str))

escapeCypherString(str) ==
  trim(replace(replace(replace(replace(str, Newline, <<Space>>),
                               Quote, <<Quote, Quote>>),
                       Backslash, <<Backslash, Backslash>>),
               Backtick, <<Backslash, Backtick>>))

\* the replace of single quotes alone, used outside the synchronizer
replaceQuotes(str) == replace(str, Quote, <<Quote, Quote>>)

\* the literal a site writes between the quotes for a path or an id
Interpolated(site, str) ==
  IF site = "synchronizer" THEN escapeCypherString(str) ELSE replaceQuotes(str)

Interpolate(site) ==
  /\ literal' = [literal EXCEPT ![site] = Interpolated(site, text)]
  /\ UNCHANGED <<graphVars, extVars, pass, text, llmVars>>

EscInit ==
  /\ disk = [f \in WsFiles |-> NoNode]
  /\ store = EmptyStore
  /\ lastOp = Op("init", NoPath, NoNode, FALSE, FALSE)
  /\ log = <<>>
  /\ conn = Ready
  /\ processorStarted = TRUE
  /\ analysisQueue = <<>>
  /\ currentJob = NoJob
  /\ pass = NoPass
  /\ text \in Strings
  /\ literal = NoLiterals
  /\ ListenerIdle
  /\ retry = NoRetry

EscNext == \E site \in Sites : Interpolate(site)

EscapeSpec == EscInit /\ [][EscNext]_vars

(***************************************************************************)
(* Properties.                                                             *)
(***************************************************************************)
Queried(q) == \E i \in DOMAIN log : log[i] = q

HasEdgesTo(st, id) == {e \in DOMAIN st.has : e[2] = id}

CallsEdgesOf(st, id) == {e \in DOMAIN st.calls : e[1] = id \/ e[2] = id}

\* the ids of the function-like nodes of a parse of `content` under `path`
FunctionLikeIds(path, content) == CollectIds(path, content)

\* C1: a bulk load started on a store that holds a File node issues no query
\* but the File count and leaves every table as it was
C1_BulkLoadOnPopulatedStoreIsNoop ==
  [][(lastOp'.kind = "initialLoad" /\ CountFiles(store) > 0)
       => /\ store' = store
          /\ \A i \in DOMAIN log' : log'[i] = "count"]_vars

C1_Witness ==
  /\ lastOp.kind = "initialLoad"
  /\ log = <<"count">>
  /\ CountFiles(store) > 0
  /\ store.funcs # {}
  /\ Present(disk) # {}

\* C2: after an update that completes, a function the file had before and
\* the new parse has not is gone, with its HasFunction edge and with every
\* Calls edge it was the caller or the callee of
C2_StaleFunctionsPruned ==
  [][(lastOp'.kind = "update" /\ ~lastOp'.thrown)
       => \A id \in FunctionsOfFile(store, lastOp'.file)
                      \ FunctionLikeIds(lastOp'.file, lastOp'.content) :
            /\ id \notin FuncIds(store')
            /\ HasEdgesTo(store', id) = {}
            /\ CallsEdgesOf(store', id) = {}]_vars

\* u.ts saved without its function log, which v.ts's function g called
C2_Witness ==
  /\ lastOp.kind = "update" /\ ~lastOp.thrown
  /\ lastOp.file = fsPath("u.ts") /\ lastOp.content = U1
  /\ Queried("deleteCalls") /\ Queried("deleteFunction")
  /\ disk["v.ts"] = V2
  /\ Id(fsPath("v.ts"), 50) \in FuncIds(store)
  /\ Id(fsPath("u.ts"), 21) \notin FuncIds(store)

C4_ExactlyOneHasFunction ==
  \A r \in store.funcs :
    /\ Cardinality(HasEdgesTo(store, r.id)) = 1
    /\ \A e \in HasEdgesTo(store, r.id) : store.has[e] = 1

\* C5: no table holds two records of one key
C5_NoDuplicateRecords ==
  /\ \A path \in DOMAIN store.files : store.files[path] = 1
  /\ \A r1, r2 \in store.funcs : r1.id = r2.id => r1 = r2
  /\ \A e \in DOMAIN store.has : store.has[e] = 1
  /\ \A e \in DOMAIN store.calls : store.calls[e] = 1

\* v.ts, whose function g calls foo twice, saved twice in a row
C5_Witness ==
  /\ lastOp.kind = "update" /\ lastOp.again
  /\ lastOp.content = V2
  /\ BagIn(<<Id(fsPath("v.ts"), 50), Id(fsPath("v.ts"), 31)>>, store.calls)
  /\ BagIn(fsPath("v.ts"), store.files)

\* C6: an update that repeats the update before it (same path, same
\* content) leaves the store as it found it and prunes nothing
C6_RepeatedUpdateChangesNothing ==
  [][lastOp'.again
       => /\ store' = store
          /\ \A i \in DOMAIN log' : log'[i] \notin {"deleteCalls", "deleteFunction"}
          /\ (~lastOp'.thrown /\ \A i \in DOMAIN log' : log'[i] # "error")
               => FunctionLikeIds(lastOp'.file, lastOp'.content)
                    = FunctionsOfFile(store', lastOp'.file)]_vars

C6_Witness ==
  /\ lastOp.kind = "update" /\ lastOp.again /\ ~lastOp.thrown
  /\ FunctionsOfFile(store, lastOp.file) # {}
  /\ DOMAIN store.calls # {}

\* C7: the callee of a Calls edge between functions of two files is a
\* Function node linked to the File node of its own file and not to the
\* File node of the caller's file
C7_CrossFileCalleeLinkedToItsFile ==
  \A e \in DOMAIN store.calls :
    e[1][1] # e[2][1]
      => /\ e[2] \in FuncIds(store)
         /\ BagIn(e[2][1], store.files)
         /\ BagIn(<<e[2][1], e[2]>>, store.has)
         /\ ~BagIn(<<e[1][1], e[2]>>, store.has)

\* two File nodes, the functions f and g under them, and the edge g -> f
C8_Expected ==
  [files |-> SetToBag({<<"u.ts">>, <<"v.ts">>}),
   funcs |-> {[id |-> Id(<<"u.ts">>, 0), name |-> "f", loc |-> 1],
              [id |-> Id(<<"v.ts">>, 21), name |-> "g", loc |-> 2]},
   has |-> SetToBag({<<<<"u.ts">>, Id(<<"u.ts">>, 0)>>,
                     <<<<"v.ts">>, Id(<<"v.ts">>, 21)>>}),
   calls |-> SetToBag({<<Id(<<"v.ts">>, 21), Id(<<"u.ts">>, 0)>>})]

\* a bulk load that found the store empty has just loaded u.ts and v.ts
C8_BulkLoadedTwoFiles ==
  /\ lastOp.kind = "initialLoad" /\ Len(log) > 2
  /\ disk = [f \in WsFiles |-> IF f = "u.ts" THEN U1 ELSE V1]

\* C8: the bulk load of u.ts (function f) and v.ts (function g, calling the
\* imported f) on an empty store ends with 2 File nodes, 2 Function nodes,
\* 2 HasFunction edges and the one Calls edge g -> f
C8_TwoFileBulkLoad == C8_BulkLoadedTwoFiles => store = C8_Expected

C8_Witness == C8_BulkLoadedTwoFiles /\ ~lastOp.thrown /\ store.funcs # {}

\* the call expressions of a tree that lie inside a function
RECURSIVE CallSites(_, _)
CallSites(node, inFunction) ==
  (IF node.kind = "CallExpression" /\ inFunction THEN {node} ELSE {})
  \cup UNION {CallSites(node.children[i],
                        inFunction \/ isFunctionLikeDeclaration(node)) :
                i \in 1..Len(node.children)}

\* the callee of the call names a declaration of a declaration-only file
ResolvesToAmbient(prog, file, call) ==
  LET sym == callExprSymbol(prog, file, call)
  IN /\ sym # NoSymbol
     /\ Len(getDeclarations(prog, sym)) > 0
     /\ isDeclarationFile(sym.file)

\* the program of the update recorded in lastOp
LastProgram == UpdateProgram(disk, lastOp.file[Len(lastOp.file)], lastOp.content)

\* C9: a call whose callee is declared in a declaration-only file gives
\* rise to no Function node and to no Calls edge
C9_AmbientCalleeYieldsNothing ==
  lastOp.kind = "update"
    => \A call \in CallSites(lastOp.content, FALSE) :
         ResolvesToAmbient(LastProgram, lastOp.file, call)
           => CallItems(LastProgram, lastOp.file, call, NoId) = <<>>

\* the declaration a symbol ultimately names, through variables initialised
\* by an identifier and through import and export specifiers
RECURSIVE Ultimate(_, _, _)
Ultimate(prog, sym, seen) ==
  IF sym \in seen \/ sym \in {NoSymbol, UnknownSymbol}
       \/ Len(getDeclarations(prog, sym)) = 0
  THEN Null
  ELSE LET decl == getDeclarations(prog, sym)[1]
           init == Initializer(decl)
       IN CASE isFunctionLikeDeclaration(decl) -> Target(decl, sym.file)
            [] decl.kind = "VariableDeclaration" /\ isFunctionLikeDeclaration(init) ->
                 Target(init, sym.file)
            [] decl.kind = "VariableDeclaration" /\ init.kind = "Identifier" ->
                 Ultimate(prog, LookupName(prog, sym.file, init.name),
                          seen \cup {sym})
            [] decl.kind \in {"ImportSpecifier", "ExportSpecifier"} ->
                 Ultimate(prog, ImmediateTarget(prog, sym), seen \cup {sym})
            [] OTHER -> Null

\* the variables of a tree that are initialised by a bare identifier
AliasVariables(tree) ==
  {tree.children[i].name :
     i \in {j \in 1..Len(tree.children) :
              /\ tree.children[j].kind = "VariableDeclaration"
              /\ Initializer(tree.children[j]).kind = "Identifier"}}

\* C10: resolveSymbolToNode of a variable initialised by a bare identifier
\* is the function-like declaration the identifier ultimately names
C10_ResolvesThroughVariables ==
  lastOp.kind = "update"
    => \A n \in AliasVariables(lastOp.content) :
         LET sym == LocalSym(lastOp.file, n)
             original == Ultimate(LastProgram, sym, {})
         IN original.found
              => resolveSymbolToNode(LastProgram, sym) = original

\* C11: the dependency ids of a file are the callees one Calls edge away
\* from a function linked to the file that are linked to a File node of
\* another path; a callee linked to the file itself is not among them
C11_DependencySet ==
  \A filePath \in DOMAIN store.files :
    /\ calledFunctionIds(store, filePath)
         = {callee \in FuncIds(store) :
              /\ \E e \in DOMAIN store.calls :
                   /\ e[2] = callee
                   /\ <<filePath, e[1]>> \in DOMAIN store.has
              /\ \E h \in DOMAIN store.has : h[2] = callee /\ h[1] # filePath}
    /\ \A callee \in calledFunctionIds(store, filePath) :
         <<filePath, callee>> \notin DOMAIN store.has

\* u.ts holds f and log, log calls f; g of v.ts calls f: f is a dependency
\* of v.ts and not of u.ts
C11_Witness ==
  /\ calledFunctionIds(store, fsPath("v.ts")) = {Id(fsPath("u.ts"), 0)}
  /\ BagIn(<<Id(fsPath("u.ts"), 21), Id(fsPath("u.ts"), 0)>>, store.calls)
  /\ calledFunctionIds(store, fsPath("u.ts")) = {}

\* C12: when a step of the store initialisation fails, initializeKuzu rejects
\* and no connection is held; from then on the store is never queried or
\* written (no bulk load, no update) and the queue processor never runs or
\* holds a job.
C12_FailedInitialisationRunsNothing ==
  /\ (\/ lastOp.kind = "initializeKuzu" /\ lastOp.thrown
      \/ lastOp.kind \in {"initialLoadSkipped", "updateSkipped",
                          "analyzeSkipped"})
       => conn.state = "failed"
  /\ conn.state = "failed"
       => /\ conn.error \in {InitSteps[i] : i \in DOMAIN InitSteps}
          /\ store = EmptyStore
          /\ log = <<>>
          /\ ~processorStarted
          /\ analysisQueue = <<>>
          /\ currentJob = NoJob
          /\ lastOp.kind \notin {"initialLoad", "update", "analyze"}

C12_Witness ==
  /\ conn = Failed("HasFunction")
  /\ lastOp.kind = "updateSkipped"
  /\ disk["u.ts"] = U2

\* C13: every site that interpolates a string into a query text applies the
\* same escape routine (quotes doubled, backslashes and backticks escaped,
\* newlines to spaces), so one value yields one literal at every site.
C13_OneLiteralPerValue ==
  \A site \in Sites :
    literal[site] # NoLiteral
      => /\ literal[site] = escapeCypherString(text)
         /\ \A other \in Sites :
              literal[other] # NoLiteral => literal[other] = literal[site]

NoQueryFailed == \A i \in DOMAIN log : log[i] # "error"

\* C14: after an update that ended with no failed query, every function-like
\* node of the new parse, at any depth, has a Function node with the id
\* (path, offset), linked by HasFunction to the file.
C14_EveryFunctionLikeNodeLinked ==
  (lastOp.kind = "update" /\ ~lastOp.thrown /\ NoQueryFailed)
    => \A id \in FunctionLikeIds(lastOp.file, lastOp.content) :
         /\ id \in FuncIds(store)
         /\ BagIn(lastOp.file, store.files)
         /\ BagIn(<<lastOp.file, id>>, store.has)

C14_Witness ==
  /\ lastOp.kind = "update" /\ ~lastOp.thrown /\ NoQueryFailed
  /\ lastOp.content = U3 /\ lastOp.again
  /\ {Id(fsPath("u.ts"), 14), Id(fsPath("u.ts"), 74)}
       \subseteq FunctionsOfFile(store, fsPath("u.ts"))

\* the function-like nodes at and below a node
RECURSIVE FunctionLikeNodes(_)
FunctionLikeNodes(node) ==
  (IF isFunctionLikeDeclaration(node) THEN {node} ELSE {})
  \cup UNION {FunctionLikeNodes(node.children[i]) : i \in 1..Len(node.children)}

\* C15: after an update, every Function node that was in the store before
\* and whose id is the id of a function-like node of the new parse carries
\* the name and the location of that node.
C15_SurvivorsCarryNewParse ==
  [][(lastOp'.kind = "update" /\ ~lastOp'.thrown)
       => \A node \in FunctionLikeNodes(lastOp'.content) :
            Id(lastOp'.file, node.pos) \in FuncIds(store)
              => FuncRec(lastOp'.file, node) \in store'.funcs]_vars

Upserts == {"mergeFunction", "linkHasFunction", "mergeCalls"}

Deletes == {"deleteCalls", "deleteFunction"}

\* C16: in an update that does not throw, the delete queries of the pruning
\* pass come after every upsert of the traversal, and there is one pair of
\* them for each function that was linked to the file and is not in the new
\* parse, also when an upsert of the traversal failed.
C16_PruneRunsAfterTraversal ==
  [][(lastOp'.kind = "update" /\ ~lastOp'.thrown)
       => /\ \A i, j \in DOMAIN log' :
               (log'[i] \in Deletes /\ log'[j] \in Upserts) => j < i
          /\ \A q \in Deletes :
               Cardinality({i \in DOMAIN log' : log'[i] = q})
                 = Cardinality(FunctionsOfFile(store, lastOp'.file)
                                 \ FunctionLikeIds(lastOp'.file, lastOp'.content))
          /\ FunctionsOfFile(store', lastOp'.file)
               \subseteq FunctionLikeIds(lastOp'.file, lastOp'.content)]_vars

C16_Witness ==
  /\ lastOp.kind = "update" /\ ~lastOp.thrown /\ lastOp.content = U1
  /\ \E i, j \in DOMAIN log :
       /\ i + 1 < j
       /\ log[i] = "mergeFunction" /\ log[i + 1] = "error"
       /\ log[j] = "deleteFunction"
  /\ FunctionsOfFile(store, fsPath("u.ts")) = {Id(fsPath("u.ts"), 0)}

\* every node at or below `node`, with the ids of the function-like nodes
\* above it, outermost first
RECURSIVE Chains(_, _, _)
Chains(file, node, chain) ==
  {<<node, chain>>}
  \cup UNION {Chains(file, node.children[i],
                     IF isFunctionLikeDeclaration(node)
                     THEN Append(chain, Id(file, node.pos)) ELSE chain) :
                i \in 1..Len(node.children)}

\* the call expressions inside a function: the innermost function around
\* the call, and the name called
CallPairs(file, content) ==
  {<<c[2][Len(c[2])], c[1].children[1].name>> :
     c \in {x \in Chains(file, content, <<>>) :
              x[1].kind = "CallExpression" /\ x[2] # <<>>}}

\* C17: whenever a node of the file is about to be visited the function stack
\* is the chain of its function-like ancestors; the stack is empty when the
\* traversal has ended; and every Calls edge a step creates starts at the
\* innermost function around a call expression of that callee.
C17_StackIsAncestorChain ==
  [][(pass # NoPass /\ pass.ps.todo # <<>>)
       => /\ Current(pass.ps).op = "visit"
               => <<Current(pass.ps).node, pass.ps.stack>>
                    \in Chains(fsPath(pass.f), pass.content, <<>>)
          /\ Current(pass.ps).op = "collect" => pass.ps.stack = <<>>
          /\ \A e \in DOMAIN store'.calls \ DOMAIN store.calls :
               /\ Current(pass.ps).op = "calls"
               /\ e[2] = Id(Current(pass.ps).file, Current(pass.ps).node.pos)
               /\ <<e[1], getFunctionName(Current(pass.ps).node)>>
                    \in CallPairs(fsPath(pass.f), pass.content)]_vars

C17_Witness ==
  /\ pass # NoPass /\ pass.content = U3 /\ pass.ps.todo # <<>>
  /\ Current(pass.ps).op = "visit" /\ Current(pass.ps).node = CallId("r", 42)
  /\ pass.ps.stack = <<Id(fsPath("u.ts"), 0)>>
  /\ BagIn(<<Id(fsPath("u.ts"), 14), Id(fsPath("u.ts"), 0)>>, store.calls)
  /\ ~BagIn(<<Id(fsPath("u.ts"), 0), Id(fsPath("u.ts"), 0)>>, store.calls)

NameOf(st, id) == (CHOOSE r \in st.funcs : r.id = id).name

\* C18: the visit of a call expression with an empty function stack sends no
\* query and leaves the store alone, and puts the visits of its children
\* next; when the update ends without a failed query, every call inside a
\* function, the functions in the arguments of module-level calls included,
\* has its Calls edge from the innermost function around it.
C18_TopLevelCallOnlyTraversed ==
  [][/\ (/\ pass # NoPass /\ pass.ps.todo # <<>>
          /\ Current(pass.ps).op = "visit"
          /\ Current(pass.ps).node.kind = "CallExpression"
          /\ pass.ps.stack = <<>>)
        => /\ store' = store /\ log' = log
           /\ pass'.ps.todo
                = [i \in 1..Len(Current(pass.ps).node.children) |->
                     Item("visit", Current(pass.ps).node.children[i],
                          Current(pass.ps).file, NoId)]
                  \o Tail(pass.ps.todo)
     /\ (/\ pass # NoPass /\ pass' = NoPass
          /\ ~pass.ps.thrown /\ pass.faults = 0 /\ NoQueryFailed)
        => \A pair \in CallPairs(fsPath(pass.f), pass.content) :
             \E e \in DOMAIN store.calls :
               e[1] = pair[1] /\ NameOf(store, e[2]) = pair[2]]_vars

C18_Witness ==
  /\ pass = NoPass /\ lastOp.kind = "update" /\ lastOp.content = U3
  /\ ~lastOp.thrown /\ NoQueryFailed
  /\ Id(fsPath("u.ts"), 74) \in FunctionsOfFile(store, fsPath("u.ts"))
  /\ BagIn(<<Id(fsPath("u.ts"), 74), Id(fsPath("u.ts"), 50)>>, store.calls)
  /\ \A e \in DOMAIN store.calls : e[1] \in FuncIds(store)

\* the function-like nodes of a text that call their own name from their
\* own body, the name being the module-level declaration of the node
SelfCallers(file, content) ==
  {node \in FunctionLikeNodes(content) :
     /\ \E i \in 1..Len(content.children) : content.children[i] = node
     /\ <<Id(file, node.pos), getFunctionName(node)>> \in CallPairs(file, content)}

\* C19: an update that ends without a failed query leaves a Calls edge from
\* each self-calling function to itself; an update that prunes a function
\* leaves neither the node nor its self edge.
C19_SelfEdgeCreatedAndPruned ==
  [][(lastOp'.kind = "update" /\ ~lastOp'.thrown)
       => /\ (\A i \in DOMAIN log' : log'[i] # "error")
               => \A node \in SelfCallers(lastOp'.file, lastOp'.content) :
                    BagIn(<<Id(lastOp'.file, node.pos), Id(lastOp'.file, node.pos)>>,
                          store'.calls)
          /\ \A id \in FunctionsOfFile(store, lastOp'.file)
                       \ FunctionLikeIds(lastOp'.file, lastOp'.content) :
               /\ id \notin FuncIds(store')
               /\ <<id, id>> \notin DOMAIN store'.calls]_vars

C19_Witness ==
  /\ lastOp.kind = "update" /\ ~lastOp.thrown /\ lastOp.content = U1
  /\ Cardinality({i \in DOMAIN log : log[i] = "deleteFunction"}) = 3
  /\ Id(fsPath("u.ts"), 50) \notin FuncIds(store)
  /\ \A e \in DOMAIN store.calls : e[1] # e[2]

\* the symbols of the module-level declarations of a text
DeclaredSymbols(file, content) ==
  {LocalSym(file, content.children[i].name) :
     i \in {j \in 1..Len(content.children) :
              content.children[j].kind \in LocalDeclKinds}}

\* C20: resolveSymbolToNode ends, for every symbol of the saved file, with a
\* declaration or with unresolved, also for symbols on a cycle of
\* indirections.
C20_ResolverTerminates ==
  lastOp.kind = "update"
    => \A symbol \in DeclaredSymbols(lastOp.file, lastOp.content) :
         ~resolveSymbolToNode(LastProgram, symbol).diverged

\* every node of a tree
AllNodes(tree) == {c[1] : c \in Chains(NoPath, tree, <<>>)}

\* the function-like declarations, and the function-like initialisers of
\* variables, that go by a name in a tree
Matches(tree, name) ==
  {n \in AllNodes(tree) :
     isFunctionLikeDeclaration(n) /\ getFunctionName(n) = name}
  \cup {Initializer(v) : v \in {n \in AllNodes(tree) :
                                 /\ n.kind = "VariableDeclaration"
                                 /\ n.name = name
                                 /\ Initializer(n) # NoNode
                                 /\ isFunctionLikeDeclaration(Initializer(n))}}

\* the ids a scan by name for a call of file p should reach
ScanTargets(prog, p, name) ==
  UNION {{Id(q, m.pos) : m \in Matches(prog.tree[q], name)} :
           q \in {x \in DOMAIN prog.tree : ~isDeclarationFile(x) /\ x # p}}

\* the call expressions of file p that lie inside a function, each with the
\* ids of the functions around it
CallsInFunctions(prog, p) ==
  {c \in Chains(p, prog.tree[p], <<>>) :
     c[1].kind = "CallExpression" /\ c[2] # <<>>}

\* the program of the pass recorded in op, on disk d
PassProgramOf(d, op) ==
  IF op.kind = "update"
  THEN UpdateProgram(d, op.file[Len(op.file)], op.content)
  ELSE BulkProgram(d, CHOOSE s \in Enumerations(d) : TRUE)

\* the files the pass recorded in op has traversed to its end
PassFiles(prog, op, loaded) ==
  IF op.thrown THEN {}
  ELSE IF op.kind = "update" THEN {op.file}
  ELSE IF op.kind = "initialLoad" /\ loaded THEN DOMAIN prog.tree
  ELSE {}

\* the call sites of a pass whose callee is a simple name without a symbol
Unbound(prog, p) ==
  {c \in CallsInFunctions(prog, p) :
     /\ c[1].children[1].kind = "Identifier"
     /\ callExprSymbol(prog, p, c[1]) = NoSymbol}

ScannedWithoutSymbol(prog, files, calls) ==
  \A p \in files : \A c \in Unbound(prog, p) :
    \A t \in ScanTargets(prog, p, c[1].children[1].name) :
      BagIn(<<c[2][Len(c[2])], t>>, calls)

\* C21: a call inside a function whose simple-name callee has no symbol at
\* all still gets, from the scan by name, a Calls edge to every function of
\* that name in the other files of the program.
C21_ScanWithoutSymbol ==
  [][ScannedWithoutSymbol(PassProgramOf(disk', lastOp'),
                          PassFiles(PassProgramOf(disk', lastOp'), lastOp',
                                    CountFiles(store) = 0),
                          store'.calls)]_vars

\* the call sites of file p whose callee has a symbol that resolves to no
\* declaration: those for which the name-based fallback runs
Fallback(prog, p) ==
  {c \in CallsInFunctions(prog, p) :
     /\ callExprSymbol(prog, p, c[1]) # NoSymbol
     /\ ~resolveSymbolToNode(prog, callExprSymbol(prog, p, c[1])).found
     /\ ~resolveSymbolToNode(prog, callExprSymbol(prog, p, c[1])).diverged}

\* the callee ids the call site c of file p may be given an edge to
ExpectedCallees(prog, p, c, sym, targetNode) ==
  IF sym = NoSymbol \/ targetNode.diverged THEN {}
  ELSE IF targetNode.found
       THEN IF ~isDeclarationFile(targetNode.file)
               /\ isFunctionLikeDeclaration(targetNode.node)
            THEN {Id(targetNode.file, targetNode.node.pos)} ELSE {}
       ELSE ScanTargets(prog, p, sym.name)

FallbackEdges(prog, files, old, new) ==
  /\ \A p \in files : \A c \in Fallback(prog, p) :
       \A t \in ScanTargets(prog, p, callExprSymbol(prog, p, c[1]).name) :
         CopiesIn(<<c[2][Len(c[2])], t>>, new) = 1
  /\ \A e \in (IF files = {} THEN {} ELSE BagToSet(new) \ BagToSet(old)) :
       \E p \in files : \E c \in CallsInFunctions(prog, p) :
         /\ e[1] = c[2][Len(c[2])]
         /\ e[2] \in ExpectedCallees(prog, p, c, callExprSymbol(prog, p, c[1]),
                    resolveSymbolToNode(prog, callExprSymbol(prog, p, c[1])))

NoMatchNoQuery(prog, files) ==
  \A p \in files : \A c \in Fallback(prog, p) :
    ScanTargets(prog, p, callExprSymbol(prog, p, c[1]).name) = {}
      => CallItems(prog, p, c[1], c[2][Len(c[2])]) = <<>>

\* C22: when the name-based fallback runs for a call site, the pass leaves
\* exactly one Calls edge from the caller to every function-like declaration
\* or function-like variable initialiser of that name in every other
\* non-declaration file of the program; no edge of the pass leads into the
\* synchronized file by name, and a name without a match adds no edge and
\* issues no query that could fail.
C22_FallbackEdgesToEveryMatch ==
  [][/\ FallbackEdges(PassProgramOf(disk', lastOp'),
                      PassFiles(PassProgramOf(disk', lastOp'), lastOp',
                                CountFiles(store) = 0),
                      store.calls, store'.calls)
     /\ NoMatchNoQuery(PassProgramOf(disk', lastOp'),
                       PassFiles(PassProgramOf(disk', lastOp'), lastOp',
                                 CountFiles(store) = 0))]_vars

\* C23: after an update in which the upsert of a Function node or of its
\* HasFunction edge failed and was logged, the traversal has still reached
\* every function-like node of the file, the children of the failed node
\* included: each of them has a Function node.
C23_FailedUpsertKeepsTraversing ==
  (lastOp.kind = "update" /\ ~lastOp.thrown /\ ~NoQueryFailed)
    => \A node \in FunctionLikeNodes(lastOp.content) :
         Id(lastOp.file, node.pos) \in FuncIds(store)

\* C24: a bulk load that starts on an empty store leaves a File node for
\* every file of the enumeration, and a Function node for each of its
\* top-level function declarations, whatever happened while an earlier file
\* was processed.
C24_BulkLoadReachesEveryFile ==
  [][(lastOp'.kind = "initialLoad" /\ CountFiles(store) = 0)
       => \A f \in Present(disk) :
            /\ BagIn(relative(rootPath, fsPath(f)), store'.files)
            /\ \A i \in 1..Len(disk[f].children) :
                 isFunctionLikeDeclaration(disk[f].children[i])
                   => Id(relative(rootPath, fsPath(f)), disk[f].children[i].pos)
                        \in FuncIds(store')]_vars

\* C27: no step removes a File node or changes how often it is stored; the
\* Function nodes and HasFunction edges a step removes were linked to the
\* file of the update, and every Calls edge it removes had such a function
\* at one of its ends.
C27_FileNodesOnlyGrow ==
  [][/\ \A p \in DOMAIN store.files :
          BagIn(p, store'.files) /\ CopiesIn(p, store'.files) = CopiesIn(p, store.files)
     /\ \A id \in FuncIds(store) \ FuncIds(store') :
          lastOp'.kind = "update" /\ id \in FunctionsOfFile(store, lastOp'.file)
     /\ \A e \in DOMAIN store.has \ DOMAIN store'.has :
          lastOp'.kind = "update" /\ e[1] = lastOp'.file
     /\ \A e \in DOMAIN store.calls \ DOMAIN store'.calls :
          /\ lastOp'.kind = "update"
          /\ \E k \in 1..2 : e[k] \in FunctionsOfFile(store, lastOp'.file)]_vars

\* u.ts saved without its function log, which was linked to it and called
\* from v.ts: the function is gone and both File nodes are in the store
C27_Witness ==
  /\ lastOp.kind = "update" /\ ~lastOp.thrown /\ lastOp.content = U1
  /\ \E i \in DOMAIN log : log[i] = "deleteFunction"
  /\ Id(fsPath("u.ts"), 21) \notin FuncIds(store)
  /\ BagIn(fsPath("u.ts"), store.files) /\ BagIn(fsPath("v.ts"), store.files)

\* the functions an update of file p to content has to prune
Stale(st, p, content) == FunctionsOfFile(st, p) \ FunctionLikeIds(p, content)

\* C28: every Calls edge an update removes, or removes a copy of, had a
\* function pruned by that update at one of its ends; an edge between two
\* functions that are not pruned is still there after the update, whether or
\* not its call expression is in the new text.
C28_EdgesRemovedOnlyWithEndpoint ==
  [][lastOp'.kind = "update"
       => \A e \in DOMAIN store.calls :
            CopiesIn(e, store'.calls) < CopiesIn(e, store.calls)
              => \E k \in 1..2 : e[k] \in Stale(store, lastOp'.file, lastOp'.content)]_vars

\* v.ts saved with g calling w instead of f: g keeps its edge to f
C28_Witness ==
  /\ lastOp.kind = "update" /\ ~lastOp.thrown /\ lastOp.content = V5
  /\ BagIn(<<Id(fsPath("v.ts"), 21), Id(fsPath("u.ts"), 0)>>, store.calls)
  /\ \A pr \in CallPairs(fsPath("v.ts"), V5) : pr[2] # "f"

\* C29: initializeKuzu run where a store exists already and could not be
\* cleared, with no other failure, resolves: the connection is ready and the
\* queue processor is started.
C29_InitializeOnExistingStore ==
  (lastOp.kind = "initializeKuzu" /\ lastOp.again)
    => conn = Ready /\ processorStarted

\* C25: the mutations of two passes never interleave: once another pass has
\* issued a mutation, a pass issues none any more.
C25_PassesDoNotInterleave ==
  \A i, j, k \in DOMAIN log :
    (i < j /\ j < k /\ log[i] = log[k]) => log[j] = log[i]

\* the store two ended passes leave when the pass of slot a runs to its end
\* on the empty store before the pass of slot b starts
SeqStore(a, b) ==
  Run(b.prog, Run(a.prog, EmptyStore, UpdatePass(fsPath(a.f), a.content)).st,
      UpdatePass(fsPath(b.f), b.content)).st

\* the edges caller -> callee the call sites of a pass ask for
WantedEdges(prog, p) ==
  UNION {{<<c[2][Len(c[2])], t>> :
            t \in ExpectedCallees(prog, p, c, callExprSymbol(prog, p, c[1]),
                     resolveSymbolToNode(prog, callExprSymbol(prog, p, c[1])))} :
           c \in CallsInFunctions(prog, p)}

SharedCalleeOnce(st, edgesA, edgesB) ==
  \A ea \in edgesA : \A eb \in edgesB :
    ea[2] = eb[2]
      => /\ Cardinality({r \in st.funcs : r.id = ea[2]}) = 1
         /\ CopiesIn(<<ea[2][1], ea[2]>>, st.has) = 1
         /\ CopiesIn(ea, st.calls) = 1
         /\ CopiesIn(eb, st.calls) = 1

\* the mutations of two passes were interleaved
Interleaved == \E i, j, k \in DOMAIN log : i < j /\ j < k /\ log[i] = log[k] /\ log[j] # log[i]

\* C26: when the passes of two different files have both ended and their
\* mutations were interleaved, the store is the one that one of the two
\* sequential orders of the passes leaves, and a callee both passes upserted
\* has one Function node, one HasFunction edge and the Calls edge of each
\* caller.
C26_InterleavedPassesAsSequential ==
  (/\ pass[1].phase = "ended" /\ pass[2].phase = "ended"
   /\ pass[1].f # pass[2].f /\ Interleaved)
    => /\ store \in {SeqStore(pass[1], pass[2]), SeqStore(pass[2], pass[1])}
       /\ SharedCalleeOnce(store,
                           WantedEdges(pass[1].prog, fsPath(pass[1].f)),
                           WantedEdges(pass[2].prog, fsPath(pass[2].f)))

\* C30: when two updates of the same file have both ended without a failed
\* query, the second save having come after the first, the functions linked
\* to the file are the function-like nodes of the second save's content.
C30_LaterContentWins ==
  (/\ pass[1].phase = "ended" /\ pass[2].phase = "ended"
   /\ pass[1].f = pass[2].f
   /\ \A s \in Slots : \A i \in DOMAIN pass[s].ps.log : pass[s].ps.log[i] # "error")
    => FunctionsOfFile(store, fsPath(pass[2].f))
         = FunctionLikeIds(fsPath(pass[2].f), pass[2].content)

\* the functions of file p in the store whose name is the name of a
\* function-like node of the new content, while no node of the new content
\* has their offset: functions the edit moved
Moved(st, p, content) ==
  {r \in st.funcs :
     /\ r.id[1] = p
     /\ r.id \notin FunctionLikeIds(p, content)
     /\ \E n \in FunctionLikeNodes(content) : getFunctionName(n) = r.name}

\* C31: an update of a file in which a function was moved removes the node
\* with the old id and every Calls edge that touches it, callers of other
\* files included, stores a node under the new id, and gives that node no
\* edge from a caller of another file that it did not have before.
C31_MovedFunctionIsRemovedAndAdded ==
  [][(lastOp'.kind = "update" /\ ~lastOp'.thrown)
       => \A r \in Moved(store, lastOp'.file, lastOp'.content) :
            /\ r.id \notin FuncIds(store')
            /\ \A e \in DOMAIN store'.calls : e[1] # r.id /\ e[2] # r.id
            /\ \A n \in FunctionLikeNodes(lastOp'.content) :
                 getFunctionName(n) = r.name
                   => /\ Id(lastOp'.file, n.pos) \in FuncIds(store')
                      /\ \A e \in DOMAIN store.calls :
                           (e[2] = r.id /\ e[1][1] # lastOp'.file)
                             => CopiesIn(<<e[1], Id(lastOp'.file, n.pos)>>, store'.calls)
                                  = CopiesIn(<<e[1], Id(lastOp'.file, n.pos)>>, store.calls)]_vars

\* the path under which a bulk load stores file f
BulkPath(f) == relative(rootPath, fsPath(f))

\* C32: once the store holds a File node, wherever it came from, no step
\* gives a file its bulk-load File node any more, and an initialLoad leaves
\* the File table as it is.
C32_NoSecondBulkLoad ==
  [][CountFiles(store) > 0
       => /\ \A f \in WsFiles :
               ~BagIn(BulkPath(f), store.files) => ~BagIn(BulkPath(f), store'.files)
          /\ lastOp'.kind = "initialLoad" => store'.files = store.files]_vars

\* a bulk load that gave up after v.ts, followed by one that was skipped:
\* u.ts is on the disk and has no File node
C32_Witness ==
  /\ lastOp.kind = "initialLoad" /\ ~lastOp.thrown
  /\ log = <<"count">>
  /\ DOMAIN store.files = {BulkPath("v.ts")}
  /\ disk["u.ts"] # NoNode

\* C33: a bulk load on the empty store leaves the same File nodes, Function
\* nodes, HasFunction edges and Calls edges for every order in which the
\* files can be enumerated.
C33_BulkLoadOrderIndependent ==
  [][(lastOp'.kind = "initialLoad" /\ CountFiles(store) = 0)
       => \A files \in Enumerations(disk) :
            RunBulk(disk, store, files).st = store']_vars

\* the ids of file p an update to content no longer has
Dropped(st, p, content) ==
  {id \in FuncIds(st) : id[1] = p /\ id \notin FunctionLikeIds(p, content)}

FrameOfUpdate(old, new, p, content, wanted) ==
  /\ \A r \in old.funcs \ new.funcs : r.id[1] = p
  /\ \A e \in DOMAIN old.has :
       CopiesIn(e, new.has) < CopiesIn(e, old.has) => e[1] = p /\ e[2][1] = p
  /\ \A e \in DOMAIN old.calls :
       CopiesIn(e, new.calls) < CopiesIn(e, old.calls)
         => \E k \in 1..2 : e[k] \in Dropped(old, p, content)
  /\ \A q \in DOMAIN new.files : q # p => CopiesIn(q, new.files) = CopiesIn(q, old.files)
  /\ \A r \in new.funcs \ old.funcs :
       r.id[1] # p => \E w \in wanted : w[2] = r.id
  /\ \A e \in DOMAIN new.has :
       (CopiesIn(e, new.has) > CopiesIn(e, old.has) /\ e[1] # p)
         => e[1] = e[2][1] /\ \E w \in wanted : w[2] = e[2]
  /\ \A e \in DOMAIN new.calls :
       CopiesIn(e, new.calls) > CopiesIn(e, old.calls)
         => e[1][1] = p /\ e \in wanted

\* C34: an update of file X removes no Function node and no HasFunction edge
\* of another file; the Calls edges it removes touch a function X no longer
\* has; what it adds outside X are the Function nodes of callees, their
\* HasFunction edges, and Calls edges from functions of X to those callees.
C34_UpdateFrame ==
  [][lastOp'.kind = "update"
       => FrameOfUpdate(store, store', lastOp'.file, lastOp'.content,
                        WantedEdges(PassProgramOf(disk', lastOp'), lastOp'.file))]_vars

\* u.ts saved without w and its arrow function, which g of v.ts had an edge
\* to: that edge is gone, g and its edge to f are still there
C34_Witness ==
  /\ lastOp.kind = "update" /\ ~lastOp.thrown /\ lastOp.content = U1
  /\ \E i \in DOMAIN log : log[i] = "deleteCalls"
  /\ disk["v.ts"] = V6
  /\ Id(fsPath("v.ts"), 21) \in FunctionsOfFile(store, fsPath("v.ts"))
  /\ BagIn(<<Id(fsPath("v.ts"), 21), Id(fsPath("u.ts"), 0)>>, store.calls)
  /\ Id(fsPath("u.ts"), 34) \notin FuncIds(store)

\* C35: a job is started only when no job is running, and it is the oldest
\* job of the queue; the running job changes only by being started or by
\* ending; jobs leave the queue only at its head, by being started, and enter
\* it only at its end.
C35_OneJobInQueueOrder ==
  [][/\ currentJob' # currentJob
          => \/ /\ currentJob = NoJob /\ analysisQueue # <<>>
                /\ currentJob' = Head(analysisQueue)
                /\ analysisQueue' = Tail(analysisQueue)
             \/ currentJob' = NoJob /\ analysisQueue' = analysisQueue
     /\ Len(analysisQueue') < Len(analysisQueue)
          => /\ currentJob = NoJob
             /\ currentJob' = Head(analysisQueue)
             /\ analysisQueue' = Tail(analysisQueue)
     /\ Len(analysisQueue') >= Len(analysisQueue)
          => SubSeq(analysisQueue', 1, Len(analysisQueue)) = analysisQueue]_vars

\* the job of u.ts is being analysed while that of v.ts, queued after it,
\* and a third one wait
C35_Witness ==
  /\ currentJob # NoJob /\ currentJob.filePath = fsPath("u.ts")
  /\ Len(analysisQueue) = 2
  /\ analysisQueue[1].filePath = fsPath("v.ts")

JobPaths == {fsPath(f) : f \in WsFiles}

\* C36: a job that is in the queue is eventually the running job, a running
\* job eventually ends, and the end of a job whose analysis threw leaves no
\* running job behind, so that the jobs after it are taken as well.
C36_EveryJobProcessed ==
  /\ \A p \in JobPaths :
       (\E i \in DOMAIN analysisQueue : analysisQueue[i].filePath = p)
         ~> (currentJob # NoJob /\ currentJob.filePath = p)
  /\ (currentJob # NoJob) ~> (currentJob = NoJob)
  /\ [][(currentJob' # currentJob /\ currentJob' # NoJob)
         => /\ analysisQueue # <<>>
            /\ currentJob' = Head(analysisQueue)
            /\ Len(analysisQueue') = Len(analysisQueue) - 1]_vars
  /\ [][(lastOp'.kind = "analysisFailed" /\ lastOp' # lastOp)
          => currentJob' = NoJob]_vars

\* the analysis of the job of u.ts threw and the job of v.ts, queued behind
\* it, is running
C36_Witness ==
  /\ lastOp.kind = "analysisFailed" /\ lastOp.file = fsPath("u.ts")
  /\ currentJob # NoJob /\ currentJob.filePath = fsPath("v.ts")

(***************************************************************************)
(* The save listener guarded by isAnalyzing.  A listener call runs without *)
(* interruption from the cache update to the await of the analysis; the    *)
(* analysis and its notifications are in flight until they settle, and the *)
(* finally block runs when they do.                                        *)
(***************************************************************************)
\* the texts a saved document can hold
SaveTexts == {"a", "b"}

\* analyses in flight that the unguarded listener may pile up
MaxAnalyses == 2

\* the request the listener sends: the whole cache the first time, the
\* changed file afterwards
userContent(f, t) ==
  [file |-> f, text |-> t,
   kind |-> IF ~hasSentInitialCodebase THEN "initial" ELSE "changed",
   oldContent |-> codebaseCache[f]]

\* the listener without the isAnalyzing test
saveListenerUnguarded(f, t) ==
  /\ Len(analyses) < MaxAnalyses
  /\ codebaseCache' = [codebaseCache EXCEPT ![f] = t]
  /\ isAnalyzing' = TRUE
  /\ hasSentInitialCodebase' = TRUE
  /\ analyses' = Append(analyses, userContent(f, t))
  /\ lastOp' = Op("analysisStarted", fsPath(f), t, FALSE, FALSE)
  /\ UNCHANGED previousCodebaseCache

\* onDidSaveTextDocument of a file that is not ignored
saveListener(f, t) ==
  /\ codebaseCache' = [codebaseCache EXCEPT ![f] = t]
  /\ IF ~isAnalyzing
       THEN /\ isAnalyzing' = TRUE
            /\ hasSentInitialCodebase' = TRUE
            /\ analyses' = Append(analyses, userContent(f, t))
            /\ lastOp' = Op("analysisStarted", fsPath(f), t, FALSE, FALSE)
       ELSE /\ lastOp' = Op("analysisSkipped", fsPath(f), t, FALSE, FALSE)
            /\ UNCHANGED <<isAnalyzing, hasSentInitialCodebase, analyses>>
  /\ UNCHANGED previousCodebaseCache

\* the analysis of a listener call settles (it returns and its notifications
\* are shown, or it throws): the finally block
saveListenerFinally(i, threw) ==
  /\ i \in DOMAIN analyses
  /\ previousCodebaseCache' =
       [previousCodebaseCache EXCEPT ![analyses[i].file] = codebaseCache[analyses[i].file]]
  /\ isAnalyzing' = FALSE
  /\ analyses' = [j \in 1..(Len(analyses) - 1) |->
                    IF j < i THEN analyses[j] ELSE analyses[j + 1]]
  /\ lastOp' = Op(IF threw THEN "analysisFailed" ELSE "analysisDone",
                  fsPath(analyses[i].file), analyses[i].text, threw, FALSE)
  /\ UNCHANGED <<codebaseCache, hasSentInitialCodebase>>

SaveFrame == UNCHANGED <<disk, store, log, extVars, pass, escVars, retry>>

SaveInit ==
  /\ disk = [f \in WsFiles |-> IF f = "u.ts" THEN U1 ELSE V1]
  /\ store = EmptyStore
  /\ lastOp = Op("init", NoPath, NoNode, FALSE, FALSE)
  /\ log = <<>>
  /\ conn = Ready
  /\ processorStarted = FALSE
  /\ analysisQueue = <<>>
  /\ currentJob = NoJob
  /\ pass = NoPass
  /\ text = <<>>
  /\ literal = NoLiterals
  /\ ListenerIdle
  /\ retry = NoRetry

SaveNext ==
  \/ \E f \in WsFiles : \E t \in SaveTexts : saveListener(f, t) /\ SaveFrame
  \/ \E i \in 1..MaxAnalyses : \E threw \in BOOLEAN :
       saveListenerFinally(i, threw) /\ SaveFrame

SaveSpec == SaveInit /\ [][SaveNext]_vars

\* C37: never two analyses in flight, and isAnalyzing says whether one is; a
\* save that arrives during an analysis stores its text in the cache, starts
\* no analysis and leaves nothing behind that would start one later; a save
\* that arrives while none runs starts one; and the end of an analysis,
\* thrown or not, leaves isAnalyzing false.
C37_OneAnalysisInFlight ==
  /\ [](Len(analyses) <= 1 /\ (isAnalyzing <=> analyses # <<>>))
  /\ [][(lastOp' # lastOp /\ lastOp'.kind = "analysisSkipped")
          => /\ isAnalyzing /\ isAnalyzing'
             /\ \E f \in WsFiles :
                  /\ fsPath(f) = lastOp'.file
                  /\ codebaseCache' = [codebaseCache EXCEPT ![f] = lastOp'.content]
             /\ analyses' = analyses
             /\ analysisQueue' = analysisQueue]_vars
  /\ [][(lastOp' # lastOp /\ lastOp'.kind = "analysisStarted")
          => ~isAnalyzing /\ Len(analyses') = 1]_vars
  /\ [][Len(analyses') > Len(analyses) => lastOp'.kind = "analysisStarted"]_vars
  /\ [][Len(analyses') < Len(analyses)
          => /\ isAnalyzing' = FALSE
             /\ analyses' = <<>>
             /\ lastOp'.kind \in {"analysisDone", "analysisFailed"}]_vars
  /\ [][(~isAnalyzing /\ codebaseCache' # codebaseCache) => isAnalyzing']_vars

\* an analysis of u.ts has ended and a later one, sent as a changed file, is
\* in flight while a save of v.ts was skipped
C37_Witness ==
  /\ lastOp.kind = "analysisSkipped" /\ lastOp.file = fsPath("v.ts")
  /\ isAnalyzing
  /\ Len(analyses) = 1 /\ analyses[1].file = "u.ts" /\ analyses[1].kind = "changed"
  /\ codebaseCache["v.ts"] = "b"
  /\ previousCodebaseCache["u.ts"] # NoText

(***************************************************************************)
(* retryWithExponentialBackoff.  One step is one turn of its loop: the     *)
(* wrapped call raced against the timer, the tests on the result, and the  *)
(* sleep before the next turn.                                             *)
(***************************************************************************)
\* the largest maxRetries tried
MaxRetries == 3

\* the values of exponentialBase and of initialDelay tried
Bases == {1, 2, 3}

Delays == {1, 1000}

\* Math.random(), in tenths
Randoms == {0, 5, 9}

\* the classes of the errors parameter
errors == {"RateLimitError"}

\* how the race of the wrapped call and the timer settles: with a result, or
\* with an error of some class and message; the timer rejects with an Error
\* whose message is "Request timeout"
null == [class |-> "null", message |-> "null"]

Data == [error |-> null, data |-> "data"]

Rejection(class, message) ==
  [error |-> [class |-> class, message |-> message], data |-> "null"]

TimedOut == [class |-> "Error", message |-> "Request timed out"]

MaxRetriesExceeded ==
  [class |-> "Error", message |-> "Maximum number of retries exceeded"]

Settlements ==
  {Data} \cup {Rejection(c, m) : c \in {"RateLimitError", "Error"},
                                 m \in {"Request timeout", "failed"}}

isTimeout(result) == result.error.message = "Request timeout"

isRetryable(result) == \E E \in errors : result.error.class = E

\* the loop gives up one failure early
ExceededEarly(retries, maxRetries) == retries >= maxRetries

\* retries > maxRetries
Exceeded(retries, maxRetries) == retries > maxRetries

\* the state of a call: its parameters, the loop's delay and retries, and the
\* history of the settlements and sleeps so far
StartRetry(initialDelay, exponentialBase, jitter, maxRetries) ==
  [status |-> "running", initialDelay |-> initialDelay,
   exponentialBase |-> exponentialBase, jitter |-> jitter,
   maxRetries |-> maxRetries, delay |-> initialDelay, retries |-> 0,
   results |-> <<>>, sleeps |-> <<>>, data |-> "null", error |-> null]

Returned(r, result) ==
  [r EXCEPT !.status = "returned", !.data = result.data,
            !.results = Append(@, result)]

Thrown(r, result, error) ==
  [r EXCEPT !.status = "thrown", !.error = error,
            !.results = Append(@, result)]

sleepTime(delay, jitter, random) ==
  IF jitter THEN (delay * (10 + random)) \div 10 ELSE delay

\* one turn of the while (true) loop
Turn(r, result, random) ==
  IF result.error = null THEN Returned(r, result)
  ELSE IF isTimeout(result) THEN Thrown(r, result, TimedOut)
  ELSE IF ~isRetryable(result) THEN Thrown(r, result, result.error)
  ELSE IF Exceeded(r.retries + 1, r.maxRetries)
    THEN Thrown([r EXCEPT !.retries = @ + 1], result,
                MaxRetriesExceeded)
  ELSE [r EXCEPT !.retries = @ + 1,
                 !.results = Append(@, result),
                 !.sleeps = Append(@, sleepTime(r.delay, r.jitter, random)),
                 !.delay = @ * r.exponentialBase]

Attempt(result, random) ==
  /\ retry.status = "running"
  /\ retry' = Turn(retry, result, random)
  /\ UNCHANGED <<graphVars, extVars, pass, escVars, saveVars>>

RetryInit ==
  /\ disk = [f \in WsFiles |-> IF f = "u.ts" THEN U1 ELSE V1]
  /\ store = EmptyStore
  /\ lastOp = Op("init", NoPath, NoNode, FALSE, FALSE)
  /\ log = <<>>
  /\ conn = Ready
  /\ processorStarted = FALSE
  /\ analysisQueue = <<>>
  /\ currentJob = NoJob
  /\ pass = NoPass
  /\ text = <<>>
  /\ literal = NoLiterals
  /\ ListenerIdle
  /\ retry \in {StartRetry(d, b, j, n) :
                  d \in Delays, b \in Bases, j \in BOOLEAN, n \in 0..MaxRetries}

RetryNext == \E result \in Settlements : \E random \in Randoms : Attempt(result, random)

RetrySpec == RetryInit /\ [][RetryNext]_vars

\* every attempt settles or is timed out
RetryLiveSpec == RetrySpec /\ WF_vars(RetryNext)

RECURSIVE Pow(_, _)
Pow(b, n) == IF n = 0 THEN 1 ELSE b * Pow(b, n - 1)

RetryableFailure(result) ==
  result.error # null /\ ~isTimeout(result) /\ isRetryable(result)

\* C38: the wrapped call is invoked at most maxRetries + 1 times and the
\* call ends; every settlement but the last is a retryable failure; a
\* result is returned at once, a timeout and an error of no retryable class
\* are thrown at once, and the (maxRetries + 1)-th retryable failure, and
\* no earlier one, throws the maximum-retries error; each retry sleeps on
\* the base delay of its turn, which is the initial delay times
\* exponentialBase to the number of retries before it.
C38_RetryTerminates ==
  /\ <>(retry.status \in {"returned", "thrown"})
  /\ [](/\ Len(retry.results) <= retry.maxRetries + 1
        /\ \A i \in 1..(Len(retry.results) - 1) : RetryableFailure(retry.results[i])
        /\ retry.status = "running"
             => /\ \A i \in DOMAIN retry.results : RetryableFailure(retry.results[i])
                /\ Len(retry.results) <= retry.maxRetries
        /\ retry.results # <<>>
             => LET last == retry.results[Len(retry.results)] IN
                /\ last.error = null
                     => retry.status = "returned" /\ retry.data = last.data
                /\ (last.error # null /\ isTimeout(last))
                     => retry.status = "thrown" /\ retry.error = TimedOut
                /\ (last.error # null /\ ~isTimeout(last) /\ ~isRetryable(last))
                     => retry.status = "thrown" /\ retry.error = last.error
                /\ RetryableFailure(last)
                     => IF Len(retry.results) = retry.maxRetries + 1
                          THEN /\ retry.status = "thrown"
                               /\ retry.error = MaxRetriesExceeded
                          ELSE retry.status = "running"
        /\ Len(retry.sleeps) = IF retry.status = "running"
                                 THEN Len(retry.results)
                                 ELSE Len(retry.results) - 1
        /\ retry.delay = retry.initialDelay * Pow(retry.exponentialBase, Len(retry.sleeps))
        /\ \A k \in DOMAIN retry.sleeps :
             LET base == retry.initialDelay * Pow(retry.exponentialBase, k - 1) IN
             IF retry.jitter
               THEN base <= retry.sleeps[k] /\ retry.sleeps[k] < 2 * base
               ELSE retry.sleeps[k] = base)

\* with maxRetries = 2 and a doubling delay of 1000: two rate-limit failures,
\* each slept on, and a third one that ends the call
C38_Witness ==
  /\ retry.status = "thrown"
  /\ retry.error = MaxRetriesExceeded
  /\ retry.maxRetries = 2 /\ retry.exponentialBase = 2 /\ retry.initialDelay = 1000
  /\ Len(retry.results) = 3
  /\ Len(retry.sleeps) = 2
  /\ retry.delay = 4000

====
